---- MODULE Spec2Model ----
(***************************************************************************)
(* git-tools: checkout() and the inspectors it uses, driven against an     *)
(* abstract git working copy.                                              *)
(*                                                                         *)
(* Strings are sequences of tokens: a word, or one of the separator        *)
(* characters ":", "/", "-".  A word never contains a separator, so two    *)
(* strings are equal exactly when their token sequences are.               *)
(*                                                                         *)
(* A commit is the set of changes it contains (its own and its             *)
(* ancestors'): c is an ancestor of d iff c \subseteq d, the merge base of *)
(* c and d is c \cap d, and a merge of c and d is c \cup d.                *)
(***************************************************************************)
EXTENDS Integers, Sequences, FiniteSets, TLC

\* ------------------------------------------------------------------ bounds
MaxCalls == 2
MaxEvents == 1

\* ------------------------------------------------------------------ values
Undefined == <<"undefined">>

OriginRemote == <<"origin">>
ForkRemote == <<"fork">>
\* another account, whose name ends with the name of the first
OtherForkRemote == <<"my", "fork">>
MasterBranch == <<"master">>
DevelopBranch == <<"develop">>
\* a branch of origin whose name is the local name of develop on the fork
ForkDevelopBranch == <<"fork", "-", "develop">>

OriginUrl == <<"git@github.com", ":", "simpleviewinc", "/", "git-tools-test", ".git">>
\* the same repository by an URL with several "/", and by one with no ".git"
HttpsOriginUrl ==
  <<"https:", "/", "/", "github.com", "/", "simpleviewinc", "/", "git-tools-test", ".git">>
BareOriginUrl == <<"git@github.com", ":", "simpleviewinc", "/", "git-tools-test">>
CheckoutFolder == <<"/", "tmp", "/", "checkout">>

\* the changes commits are made of: <<what, serial>>
FirstChange == <<"test.txt=one", 0>>
SubmoduleChange == <<".gitmodules", 0>>
ForkChange == <<"fork work", 0>>
OtherChange == <<"other work", 0>>
LocalChange(n) == <<"local work", n>>
PushedChange(n) == <<"pushed", n>>

\* the branches the remotes hold when the model starts, by tracking label.
\* develop carries sub-repositories; origin's fork-develop and the fork's develop
\* have diverged.
InitialServer ==
  (<<"origin", "/", "master">> :> {FirstChange})
  @@ (<<"origin", "/", "develop">> :> {FirstChange, SubmoduleChange})
  @@ (<<"origin", "/", "fork", "-", "develop">> :> {FirstChange, OtherChange})
  @@ (<<"fork", "/", "master">> :> {FirstChange})
  @@ (<<"fork", "/", "develop">> :> {FirstChange, SubmoduleChange, ForkChange})

\* the kinds of pending change `git status --porcelain` reports
DirtyKinds == {"untrackedFile", "untrackedDir", "stagedAdd", "deleted", "stagedDelete"}

\* ------------------------------------------------------------------ pure helpers
RECURSIVE IndexOf(_, _, _)
\* first index >= i of token t in s, 0 when there is none
IndexOf(s, t, i) ==
  IF i > Len(s) THEN 0
  ELSE IF s[i] = t THEN i
  ELSE IndexOf(s, t, i + 1)

\* github.match(/^(.*?):(.*)$/): null, or <<whole, remote, branch>>; the lazy
\* first group ends at the first ":".
GithubMatchLastColon(github) ==
  LET colons == {i \in 1..Len(github) : github[i] = ":"} IN
  IF colons = {} THEN Undefined
  ELSE LET i == CHOOSE k \in colons : \A j \in colons : j <= k IN
       <<github, SubSeq(github, 1, i - 1), SubSeq(github, i + 1, Len(github))>>

GithubMatch(github) ==
  LET i == IndexOf(github, ":", 1) IN
  IF i = 0 THEN Undefined
  ELSE <<github, SubSeq(github, 1, i - 1), SubSeq(github, i + 1, Len(github))>>

\* origin.match(/\/(.*).git/): null, or the text of the group, which starts after the
\* first "/" and, being greedy, ends before the last ".git" behind it
RepositoryName(origin) ==
  LET first == IndexOf(origin, "/", 1)
      gits == {i \in 1..Len(origin) : i > first /\ origin[i] = ".git"} IN
  IF first = 0 \/ gits = {} THEN Undefined
  ELSE SubSeq(origin, first + 1, (CHOOSE i \in gits : \A j \in gits : j <= i) - 1)

DesiredLocalBranchNoPrefix(remote, branch) == branch

DesiredLocalBranch(remote, branch) ==
  IF remote = OriginRemote THEN branch ELSE remote \o <<"-">> \o branch

DesiredTrackingOrigin(remote, branch) == OriginRemote \o <<"/">> \o branch

DesiredTracking(remote, branch) == remote \o <<"/">> \o branch

DesiredRemoteBranch(remote, branch) == <<"remotes", "/">> \o remote \o <<"/">> \o branch

\* getState's comparison of the three commits it read
ClassifyStateSwapped(localCommit, remoteCommit, baseCommit) ==
  IF localCommit = remoteCommit THEN "equal"
  ELSE IF baseCommit # localCommit THEN "behind"
  ELSE "ahead"

ClassifyState(localCommit, remoteCommit, baseCommit) ==
  IF localCommit = remoteCommit THEN "equal"
  ELSE IF baseCommit # localCommit THEN "ahead"
  ELSE "behind"

MergeBase(c, d) == c \cap d

\* ------------------------------------------------------------------ the external git
EmptyMap == [x \in {} |-> {}]

Restrict(f, S) == [x \in S |-> f[x]]

\* the remote a tracking label names: the text before its first "/"
RemoteOf(label) == SubSeq(label, 1, IndexOf(label, "/", 1) - 1)

NoWorkingCopy ==
  [exists |-> FALSE, remotes |-> {}, refs |-> EmptyMap, branches |-> EmptyMap,
   head |-> Undefined, dirty |-> {}, modules |-> Undefined, cache |-> EmptyMap]

HeadCommit(w) == w.branches[w.head].commit

HeadTracking(w) == w.branches[w.head].tracking

\* git fetch <remote>: the remote-tracking refs of that remote follow the server
GitFetch(w, srv, remote) ==
  LET theirs == {l \in DOMAIN srv : RemoteOf(l) = remote}
      kept == DOMAIN w.refs \ theirs IN
  [w EXCEPT !.refs = [l \in kept \cup theirs |-> IF l \in theirs THEN srv[l] ELSE w.refs[l]]]

\* git clone --recurse-submodules <origin> <path>: master checked out, tracking origin/master
GitClone(srv) ==
  LET m == DesiredTracking(OriginRemote, MasterBranch)
      w == GitFetch([NoWorkingCopy EXCEPT !.exists = TRUE, !.remotes = {OriginRemote}],
                    srv, OriginRemote) IN
  [w EXCEPT !.branches = (MasterBranch :> [commit |-> srv[m], tracking |-> m]),
            !.head = MasterBranch,
            !.modules = IF SubmoduleChange \in srv[m] THEN MasterBranch ELSE Undefined]

\* git reset (mixed): the index goes back to HEAD, the files stay
GitReset(w) ==
  [w EXCEPT !.dirty = {IF k = "stagedAdd" THEN "untrackedFile"
                       ELSE IF k = "stagedDelete" THEN "deleted"
                       ELSE k : k \in w.dirty}]

\* git clean -ffd: untracked files and untracked directories go
GitCleanFfd(w) == [w EXCEPT !.dirty = w.dirty \ {"untrackedFile", "untrackedDir"}]

\* git clean -f: untracked files go, untracked directories stay
GitCleanF(w) == [w EXCEPT !.dirty = w.dirty \ {"untrackedFile"}]

\* git checkout . : the tracked files of the index are restored
GitCheckoutDot(w) == [w EXCEPT !.dirty = w.dirty \ {"deleted"}]

\* git submodule update: every sub-repository goes back to the commit the parent
\* records for it; the branches made inside it stay in its module directory. The
\* clone set submodule.active, so a sub-repository whose module directory is gone is
\* cloned anew
GitSubmoduleUpdate(w) ==
  [w EXCEPT !.dirty = w.dirty \ {"submoduleCommit"},
            !.modules = IF w.modules = Undefined THEN w.head ELSE w.modules]

\* git show-ref refs/heads/<name> exits 0
GitShowRefNever(w, name) == FALSE

GitShowRef(w, name) == name \in DOMAIN w.branches

\* git branch <name> --track remotes/<label> exits 0
CanGitBranchTrack(w, name, label) == name \notin DOMAIN w.branches /\ label \in DOMAIN w.refs

GitBranchTrack(w, name, label) ==
  [w EXCEPT !.branches = w.branches @@ (name :> [commit |-> w.refs[label], tracking |-> label])]

\* git checkout <name> on a clean working copy
CanGitCheckout(w, name) == name \in DOMAIN w.branches

GitCheckout(w, name) == [w EXCEPT !.head = name]

\* git checkout -b <name>: a new branch at the checked-out commit, with no upstream
GitCheckoutNewBranch(w, name) ==
  [w EXCEPT !.branches = w.branches @@ (name :> [commit |-> HeadCommit(w), tracking |-> Undefined]),
            !.head = name]

\* git reset --hard <label>
CanGitResetHard(w, label) == label \in DOMAIN w.refs

GitResetHard(w, label) ==
  [w EXCEPT !.branches[w.head].commit = w.refs[label],
            !.dirty = w.dirty \ {"stagedAdd", "deleted", "stagedDelete"}]

\* git pull, when it exits 0: fetch the upstream's remote, then "up to date",
\* fast-forward, or a merge commit
GitPull(w, srv) ==
  LET f == GitFetch(w, srv, RemoteOf(HeadTracking(w)))
      theirs == f.refs[HeadTracking(w)]
      mine == HeadCommit(w) IN
  [f EXCEPT !.branches[w.head].commit =
     IF theirs \subseteq mine THEN mine
     ELSE IF mine \subseteq theirs THEN theirs
     ELSE mine \cup theirs]

\* ------------------------------------------------------------------ the inspectors
\* isDirty: `git status --porcelain` prints something
isDirtyTrackedOnly(w) == w.dirty \ {"untrackedFile", "untrackedDir"} # {}

isDirty(w) == w.dirty # {}

\* hasSubmodules: <path>/.gitmodules exists
hasSubmodules(w) == w.exists /\ SubmoduleChange \in HeadCommit(w)

\* getTrackingBranch: git rev-parse --abbrev-ref --symbolic-full-name @{u}
getTrackingBranch(w) == HeadTracking(w)

\* every branch is taken to have an upstream
HasUpstreamAlways(w) == TRUE

\* git rev-parse --abbrev-ref --symbolic-full-name @{u} exits 0: the checked-out
\* branch has an upstream configured
HasUpstream(w) == HeadTracking(w) # Undefined

\* getBranch: git rev-parse --abbrev-ref HEAD
getBranch(w) == w.head

\* getState: rev-parse @, rev-parse @{u}, merge-base @ @{u}
getState(w) ==
  LET localCommit == HeadCommit(w)
      remoteCommit == w.refs[HeadTracking(w)]
      baseCommit == MergeBase(localCommit, remoteCommit) IN
  ClassifyState(localCommit, remoteCommit, baseCommit)

\* ------------------------------------------------------------------ state
VARIABLES
  server,    \* the branches on the remotes: tracking label -> commit
  wc,        \* the working copy at `path`
  pc,        \* where checkout() is
  call,      \* the arguments of the running (or last) checkout()
  cur,       \* currentTracking and currentBranch, as read at the start of the call
  log,       \* the external commands the call has issued, in order
  codes,     \* the exit code of each of them
  prompts,   \* the prompts the call has written, in order
  answers,   \* what the operator answered to each prompt: "enter" or "ctrl+c"
  err,       \* the message of the error the call threw, "" when none
  pre,       \* the working copy when the call started
  prev,      \* the call before this one, when it succeeded with the same arguments right before
  ins,       \* the last inspector query made on its own, and where it was made
  argv,      \* the command line of the process, when checkout() is run by the cli
  aborted,   \* a call made so far threw or was cancelled at a prompt
  other,     \* a second checkout() on the same path while it is not the one running
  ncalls,
  nevents

vars == <<server, wc, pc, call, cur, log, codes, prompts, answers, err, pre, prev, ins, argv,
          aborted, other, ncalls, nevents>>

\* ------------------------------------------------------------------ inputs
PathInputs == {Undefined, CheckoutFolder}
OriginInputs == {Undefined, OriginUrl}
BranchInputs == {Undefined, DevelopBranch, ForkDevelopBranch}
RemoteInputs == {Undefined, ForkRemote}
\* the shorthand as github gives it, and the form the readme names
GithubInputs == {Undefined, <<"fork", ":", "develop">>, <<"fork", "/", "develop">>}

\* the calls the model makes: every target with and without the gate, the shorthand
\* over several remote and branch arguments, the calls with an argument missing or
\* a malformed shorthand, and the call the tests make with preserveBranch, a
\* property checkout() does not take from its argument (lines 35-43)
CheckoutInputs ==
  [path : {CheckoutFolder}, origin : {OriginUrl}, branch : BranchInputs,
   remote : RemoteInputs, github : {Undefined}, interactive : BOOLEAN,
   preserveBranch : {FALSE}]
  \cup [path : {CheckoutFolder}, origin : {OriginUrl}, branch : {Undefined, ForkDevelopBranch},
        remote : {Undefined}, github : {<<"fork", ":", "develop">>}, interactive : {FALSE},
        preserveBranch : {FALSE}]
  \cup [path : {CheckoutFolder}, origin : {OriginUrl}, branch : {Undefined},
        remote : {Undefined}, github : {<<"fork", "/", "develop">>}, interactive : {FALSE},
        preserveBranch : {FALSE}]
  \cup [path : {Undefined}, origin : OriginInputs, branch : {Undefined},
        remote : {Undefined}, github : {Undefined}, interactive : {FALSE},
        preserveBranch : {FALSE}]
  \cup [path : {CheckoutFolder}, origin : {Undefined}, branch : {Undefined},
        remote : {Undefined}, github : {Undefined}, interactive : {FALSE},
        preserveBranch : {FALSE}]
  \cup [path : {CheckoutFolder}, origin : {OriginUrl}, branch : {Undefined},
        remote : {Undefined}, github : {Undefined}, interactive : {FALSE},
        preserveBranch : {TRUE}]

\* calls that name the remote or the repository otherwise: an account whose name ends
\* with the name of another, and other URLs of the origin
NamingInputs ==
  [path : {CheckoutFolder}, origin : {OriginUrl}, branch : {Undefined},
   remote : {Undefined, ForkRemote, OtherForkRemote}, github : {Undefined},
   interactive : {FALSE}, preserveBranch : {FALSE}]
  \cup [path : {CheckoutFolder}, origin : {OriginUrl, HttpsOriginUrl, BareOriginUrl},
        branch : {Undefined}, remote : {Undefined}, github : {Undefined},
        interactive : BOOLEAN, preserveBranch : {FALSE}]

NoCall ==
  [path |-> Undefined, origin |-> Undefined, branch |-> Undefined, remote |-> Undefined,
   github |-> Undefined, interactive |-> FALSE, preserveBranch |-> FALSE]

\* nothing read yet: currentTracking, currentBranch and name
NoCurrent == [tracking |-> Undefined, branch |-> Undefined, name |-> Undefined]

NoPrev == [ok |-> FALSE, args |-> NoCall, observed |-> Undefined]

\* no inspector has been called on its own
NoInspection ==
  [path |-> CheckoutFolder, kind |-> "repository", after |-> "start", fn |-> "none",
   outcome |-> "none", value |-> Undefined, error |-> Undefined, queries |-> <<>>]

\* no second call has been made
NoOther ==
  [pc |-> "idle", call |-> NoCall, cur |-> NoCurrent, log |-> <<>>, codes |-> <<>>,
   prompts |-> <<>>, answers |-> <<>>, err |-> "", pre |-> NoWorkingCopy, prev |-> NoPrev,
   suspended |-> FALSE, resumed |-> FALSE]

\* the caller is a program that required the library: there is no command line
NoArgv == [method |-> "none", options |-> <<>>]

\* ------------------------------------------------------------------ checkout()
\* lines 38-39 and 52-60: the defaults, then the github shorthand over them
ResolvedRemoteIgnoringGithub(args) ==
  IF args.remote = Undefined THEN OriginRemote ELSE args.remote

ResolvedRemote(args) ==
  IF args.github # Undefined /\ GithubMatch(args.github) # Undefined
  THEN GithubMatch(args.github)[2]
  ELSE IF args.remote = Undefined THEN OriginRemote ELSE args.remote

ResolvedBranch(args) ==
  IF args.github # Undefined /\ GithubMatch(args.github) # Undefined
  THEN GithubMatch(args.github)[3]
  ELSE IF args.branch = Undefined THEN MasterBranch ELSE args.branch

\* lines 44-56: the message of the error thrown, "" when the arguments pass
ArgumentErrorNoGithubCheck(args) ==
  IF args.path = Undefined THEN "Must specify a path."
  ELSE IF args.origin = Undefined THEN "Must specify an origin."
  ELSE ""

ArgumentError(args) ==
  IF args.path = Undefined THEN "Must specify a path."
  ELSE IF args.origin = Undefined THEN "Must specify an origin."
  ELSE IF args.github # Undefined /\ GithubMatch(args.github) = Undefined
  THEN "Github flag is invalid"
  ELSE ""

desiredLocalBranch == DesiredLocalBranch(ResolvedRemote(call), ResolvedBranch(call))

desiredTracking == DesiredTracking(ResolvedRemote(call), ResolvedBranch(call))

desiredRemoteBranch == DesiredRemoteBranch(ResolvedRemote(call), ResolvedBranch(call))

CommandFailed == "Process failed returned exit"

\* line 88 when the match is null
NameTypeError == "TypeError: Cannot read property '1' of null"

\* the error execP rejects with when the command of an awaited inspector exits nonzero
InspectorFailed == "Command failed"

Observed(w) ==
  [branch |-> getBranch(w), tracking |-> getTrackingBranch(w), dirty |-> isDirty(w),
   branches |-> DOMAIN w.branches]

Idle == pc \in {"idle", "done", "failed", "cancelled"}

\* the working copy a checkout of origin's develop on a fresh path leaves: master and
\* develop, develop checked out, its sub-repositories initialised
DevelopCheckedOut ==
  LET label == DesiredTracking(OriginRemote, DevelopBranch)
      w == GitCheckout(GitBranchTrack(GitClone(InitialServer), DevelopBranch, label),
                       DevelopBranch) IN
  [w EXCEPT !.modules = DevelopBranch]

Init ==
  /\ server = InitialServer
  /\ wc \in {NoWorkingCopy, GitClone(InitialServer), DevelopCheckedOut}
  /\ pc = "idle"
  /\ call = NoCall
  /\ cur = NoCurrent
  /\ log = <<>>
  /\ codes = <<>>
  /\ prompts = <<>>
  /\ answers = <<>>
  /\ err = ""
  /\ pre = NoWorkingCopy
  /\ prev = NoPrev
  /\ ins = NoInspection
  /\ argv = NoArgv
  /\ aborted = FALSE
  /\ other = NoOther
  /\ ncalls = 0
  /\ nevents = 0

\* the exit codes of commands that all exit 0
Passing(issued) == [i \in 1..Len(issued) |-> 0]

\* the exit codes of commands of which the last exits nonzero
Failing(issued) == [i \in 1..Len(issued) |-> IF i = Len(issued) THEN 1 ELSE 0]

\* the existence probe that opens a command group exited nonzero when `failed`
ProbeFailed(exits, failed) == [i \in 1..Len(exits) |-> IF i = 1 /\ failed THEN 1 ELSE exits[i]]

\* spawnP and execP: the commands run and the code each exited with
Issue(issued, exits) ==
  /\ log' = log \o issued
  /\ codes' = codes \o exits

\* a step that only moves on
Goto(next) ==
  /\ pc' = next
  /\ answers' = IF pc \in {"promptDirty", "promptAhead"}
                THEN Append(answers, IF next = "cancelled" THEN "ctrl+c" ELSE "enter")
                ELSE answers
  /\ aborted' = (aborted \/ next \in {"failed", "cancelled"})
  /\ UNCHANGED <<server, call, cur, prev, pre, ins, argv, other, ncalls, nevents>>

\* a command exited nonzero: spawnP rejects and checkout() rejects with it
FailUnnoticed(w, issued) ==
  /\ wc' = w
  /\ Issue(issued, Failing(issued))
  /\ Goto(CASE pc = "clone" -> "inspect"
            [] pc = "fetch" -> "dirty"
            [] pc = "reset" -> "pull"
            [] OTHER -> "submodules")
  /\ UNCHANGED <<prompts, err>>

\* a command that exits nonzero makes the call start over
FailRetries(w, issued) ==
  /\ wc' = w
  /\ log' = <<>>
  /\ codes' = <<>>
  /\ prompts' = <<>>
  /\ Goto("clone")
  /\ UNCHANGED err

Fail(w, issued) ==
  /\ wc' = w
  /\ Issue(issued, Failing(issued))
  /\ err' = CommandFailed
  /\ Goto("failed")
  /\ UNCHANGED prompts

\* lines 35-60: the call starts; bad arguments throw before anything is awaited
Call(args) ==
  /\ Idle
  /\ ncalls < MaxCalls
  /\ ncalls' = ncalls + 1
  /\ call' = args
  /\ pre' = wc
  /\ prev' = IF pc = "done" /\ call = args
             THEN [ok |-> TRUE, args |-> call, observed |-> Observed(wc)]
             ELSE NoPrev
  /\ log' = <<>>
  /\ codes' = <<>>
  /\ prompts' = <<>>
  /\ answers' = <<>>
  /\ err' = ArgumentError(args)
  /\ pc' = IF ArgumentError(args) = "" THEN "clone" ELSE "failed"
  /\ aborted' = (aborted \/ ArgumentError(args) # "")
  /\ UNCHANGED <<server, wc, cur, ins, argv, other, nevents>>

\* lines 73-79: fs.access(path) succeeds
PathExistsNever(w) == FALSE

PathExists(w) == w.exists

\* lines 73-83: clone when the path does not exist
StepClone ==
  /\ pc = "clone"
  /\ IF PathExists(wc)
     THEN /\ Goto("inspect")
          /\ UNCHANGED <<wc, log, codes, prompts, err>>
     ELSE \/ /\ wc' = GitClone(server)
             /\ Issue(<<"git clone --recurse-submodules">>, <<0>>)
             /\ Goto("inspect")
             /\ UNCHANGED <<prompts, err>>
          \/ Fail(wc, <<"git clone --recurse-submodules">>)

\* lines 85-91: the identifiers, then the current tracking label and branch; the
\* name is taken from the match at once, whatever the remote
StepInspect ==
  /\ pc = "inspect"
  /\ IF RepositoryName(call.origin) = Undefined
     THEN /\ err' = NameTypeError
          /\ pc' = "failed"
          /\ UNCHANGED <<cur, log, codes>>
     ELSE IF ~HasUpstream(wc)
     THEN /\ err' = InspectorFailed
          /\ pc' = "failed"
          /\ Issue(<<"git rev-parse --abbrev-ref --symbolic-full-name @{u}">>, <<1>>)
          /\ UNCHANGED cur
     ELSE /\ cur' = [tracking |-> getTrackingBranch(wc), branch |-> getBranch(wc),
                     name |-> RepositoryName(call.origin)]
          /\ Issue(<<"git rev-parse --abbrev-ref --symbolic-full-name @{u}",
                     "git rev-parse --abbrev-ref HEAD">>, <<0, 0>>)
          /\ pc' = "remote"
          /\ UNCHANGED err
  /\ aborted' = (aborted \/ RepositoryName(call.origin) = Undefined \/ ~HasUpstream(wc))
  /\ UNCHANGED <<server, wc, call, prompts, answers, pre, prev, ins, argv, other, ncalls, nevents>>

RECURSIVE IsSuffix(_, _)
IsSuffix(s, t) ==
  IF Len(s) = 0 THEN TRUE
  ELSE IF Len(t) = 0 THEN FALSE
  ELSE s[Len(s)] = t[Len(t)] /\ IsSuffix(SubSeq(s, 1, Len(s) - 1), SubSeq(t, 1, Len(t) - 1))

\* `git remote | grep ${remote}$` exits 0: a registered alias ends with the name
RemoteFound(w, remote) == \E alias \in w.remotes : IsSuffix(remote, alias)

\* lines 93-101: register the remote of a fork
StepRemote ==
  /\ pc = "remote"
  /\ IF ResolvedRemote(call) = OriginRemote
     THEN UNCHANGED <<wc, log, codes>>
     ELSE IF RemoteFound(wc, ResolvedRemote(call))
     THEN /\ Issue(<<"git remote | grep">>, <<0>>)
          /\ UNCHANGED wc
     ELSE /\ wc' = [wc EXCEPT !.remotes = wc.remotes \cup {ResolvedRemote(call)}]
          /\ Issue(<<"git remote | grep", "git remote add">>, <<1, 0>>)
  /\ Goto("fetch")
  /\ UNCHANGED <<prompts, err>>

\* the call goes on without fetching
StepFetchSkipped ==
  /\ pc = "fetch"
  /\ Goto("dirty")
  /\ UNCHANGED <<wc, log, codes, prompts, err>>

\* line 103: fetch the target remote
StepFetch ==
  /\ pc = "fetch"
  /\ \/ /\ ResolvedRemote(call) \in wc.remotes
        /\ wc' = GitFetch(wc, server, ResolvedRemote(call))
        /\ Issue(<<"git fetch --recurse-submodules">>, <<0>>)
        /\ Goto("dirty")
        /\ UNCHANGED <<prompts, err>>
     \/ Fail(wc, <<"git fetch --recurse-submodules">>)

DirtyPrompt == "Press [enter] to continue and clean your working copy, or ctrl+c to cancel the operation."
AheadPrompt == "Press [enter] to continue and reset or ctrl+c to cancel the operation."

\* whether a destructive gate asks the operator first
GateAlwaysAsks(interactive) == TRUE

GateNeverAsks(interactive) == FALSE

GateAsks(interactive) == interactive = TRUE

\* lines 105-110: the dirty check and the first gate
StepDirty ==
  /\ pc = "dirty"
  /\ IF isDirty(wc)
     THEN IF GateAsks(call.interactive)
          THEN /\ prompts' = Append(prompts, DirtyPrompt)
               /\ Goto("promptDirty")
          ELSE /\ Goto("clean")
               /\ UNCHANGED prompts
     ELSE /\ Goto("switch")
          /\ UNCHANGED prompts
  /\ Issue(<<"git status --porcelain">>, <<0>>)
  /\ UNCHANGED <<wc, err>>

\* the operator presses enter: readP resolves
Confirm ==
  /\ pc \in {"promptDirty", "promptAhead"}
  /\ Goto(IF pc = "promptDirty" THEN "clean" ELSE "reset")
  /\ UNCHANGED <<wc, log, codes, prompts, err>>

\* the operator presses ctrl+c: the process ends at the prompt
Cancel ==
  /\ pc \in {"promptDirty", "promptAhead"}
  /\ Goto("cancelled")
  /\ UNCHANGED <<wc, log, codes, prompts, err>>

\* line 120: git reset && git clean -ffd && git checkout .
CleanWorkingCopyKeepDirs(w) == GitCheckoutDot(GitCleanF(GitReset(w)))

CleanWorkingCopyNoReset(w) == GitCheckoutDot(GitCleanFfd(w))

\* the cleaning of the clean-flag variant: a hard reset of the branch being left
CleanWorkingCopyHardReset(w) == GitCleanF(GitResetHard(w, HeadTracking(w)))

CleanWorkingCopy(w) == GitCheckoutDot(GitCleanFfd(GitReset(w)))

\* lines 112-121: clean the sub-repositories, then the working copy
StepClean ==
  /\ pc = "clean"
  /\ wc' = CleanWorkingCopy(IF hasSubmodules(wc) THEN GitSubmoduleUpdate(wc) ELSE wc)
  /\ LET issued == (IF hasSubmodules(wc)
                     THEN <<"git submodule foreach clean", "git submodule update">>
                     ELSE <<>>)
                    \o <<"git reset", "git clean -ffd", "git checkout .">> IN
     Issue(issued, Passing(issued))
  /\ Goto("switch")
  /\ UNCHANGED <<prompts, err>>

\* the module state is dropped instead of stored
StoreModulesDropped(w, branch) == [w EXCEPT !.modules = Undefined]

\* the module state is stored under the name of the branch the call goes to
StoreModulesUnderDesired(w, branch) ==
  [w EXCEPT !.modules = Undefined,
            !.cache = IF desiredLocalBranch \in DOMAIN w.cache THEN w.cache
                      ELSE w.cache @@ (desiredLocalBranch :> w.modules)]

\* lines 145-152: git submodule deinit --all, then mv .git/modules to
\* .git/git-tools/modules/<branch>; onto an existing entry mv moves the directory
\* inside it and the entry keeps what it held
StoreModules(w, branch) ==
  [w EXCEPT !.modules = Undefined,
            !.cache = IF branch \in DOMAIN w.cache THEN w.cache
                      ELSE w.cache @@ (branch :> w.modules)]

\* line 123: whether the branch has to be switched
NeedsSwitchAlways(currentTracking, tracking) == TRUE

NeedsSwitch(currentTracking, tracking) == currentTracking # tracking

\* the switch as one step: when a command of it fails, what the commands before it
\* did is undone
SwitchBranchAllOrNothing(w) ==
  LET create == ~GitShowRef(w, desiredLocalBranch)
      createOk == CanGitBranchTrack(w, desiredLocalBranch, desiredTracking)
      w1 == IF create /\ createOk
            THEN GitBranchTrack(w, desiredLocalBranch, desiredTracking) ELSE w
      l1 == <<"git show-ref">> \o (IF create THEN <<"git branch --track">> ELSE <<>>)
      store == hasSubmodules(w1)
      storeOk == w1.modules # Undefined
      w2 == IF store /\ storeOk THEN StoreModules(w1, cur.branch) ELSE w1
      l2 == l1 \o (IF store
                   THEN <<"git submodule deinit --all", "mkdir -p .git/git-tools/modules",
                          "mv .git/modules .git/git-tools/modules/$BRANCH">>
                   ELSE <<>>) IN
  IF create /\ ~createOk THEN [ok |-> FALSE, wc |-> w, issued |-> l1, created |-> create]
  ELSE IF store /\ ~storeOk THEN [ok |-> FALSE, wc |-> w, issued |-> l2, created |-> create]
  ELSE IF ~CanGitCheckout(w2, desiredLocalBranch)
  THEN [ok |-> FALSE, wc |-> w, issued |-> Append(l2, "git checkout"), created |-> create]
  ELSE [ok |-> TRUE, wc |-> GitCheckout(w2, desiredLocalBranch),
        issued |-> Append(l2, "git checkout"), created |-> create]

\* lines 123-161, command by command: [ok, wc, issued]
SwitchBranch(w) ==
  LET create == ~GitShowRef(w, desiredLocalBranch)
      createOk == CanGitBranchTrack(w, desiredLocalBranch, desiredTracking)
      w1 == IF create /\ createOk
            THEN GitBranchTrack(w, desiredLocalBranch, desiredTracking) ELSE w
      l1 == <<"git show-ref">> \o (IF create THEN <<"git branch --track">> ELSE <<>>)
      store == hasSubmodules(w1)
      storeOk == w1.modules # Undefined
      w2 == IF store /\ storeOk THEN StoreModules(w1, cur.branch) ELSE w1
      l2 == l1 \o (IF store
                   THEN <<"git submodule deinit --all", "mkdir -p .git/git-tools/modules",
                          "mv .git/modules .git/git-tools/modules/$BRANCH">>
                   ELSE <<>>) IN
  IF create /\ ~createOk THEN [ok |-> FALSE, wc |-> w, issued |-> l1, created |-> create]
  ELSE IF store /\ ~storeOk THEN [ok |-> FALSE, wc |-> w1, issued |-> l2, created |-> create]
  ELSE IF ~CanGitCheckout(w2, desiredLocalBranch)
  THEN [ok |-> FALSE, wc |-> w2, issued |-> Append(l2, "git checkout"), created |-> create]
  ELSE [ok |-> TRUE, wc |-> GitCheckout(w2, desiredLocalBranch),
        issued |-> Append(l2, "git checkout"), created |-> create]

\* lines 123-161: create the branch when missing, store the modules, check out
StepSwitch ==
  /\ pc = "switch"
  /\ IF NeedsSwitch(cur.tracking, desiredTracking)
     THEN LET r == SwitchBranch(wc) IN
          IF r.ok
          THEN /\ wc' = r.wc
               /\ Issue(r.issued, ProbeFailed(Passing(r.issued), r.created))
               /\ Goto("state")
               /\ UNCHANGED <<prompts, err>>
          ELSE /\ wc' = r.wc
               /\ Issue(r.issued, ProbeFailed(Failing(r.issued), r.created))
               /\ err' = CommandFailed
               /\ Goto("failed")
               /\ UNCHANGED prompts
     ELSE /\ Goto("state")
          /\ UNCHANGED <<wc, log, codes, prompts, err>>

\* lines 163-169: the relative state and the second gate
StepState ==
  /\ pc = "state"
  /\ IF getState(wc) = "ahead"
     THEN IF GateAsks(call.interactive)
          THEN /\ prompts' = Append(prompts, AheadPrompt)
               /\ Goto("promptAhead")
          ELSE /\ Goto("reset")
               /\ UNCHANGED prompts
     ELSE /\ Goto("pull")
          /\ UNCHANGED prompts
  /\ Issue(<<"git rev-parse @", "git rev-parse @{u}", "git merge-base @ @{u}">>, <<0, 0, 0>>)
  /\ UNCHANGED <<wc, err>>

\* lines 171-176: git reset --hard $BRANCH && git clean -f
StepReset ==
  /\ pc = "reset"
  /\ IF CanGitResetHard(wc, desiredTracking)
     THEN /\ wc' = GitCleanF(GitResetHard(wc, desiredTracking))
          /\ Issue(<<"git reset --hard", "git clean -f">>, <<0, 0>>)
          /\ Goto("pull")
          /\ UNCHANGED <<prompts, err>>
     ELSE Fail(wc, <<"git reset --hard">>)

\* line 179: git pull
StepPull ==
  /\ pc = "pull"
  /\ \/ /\ wc' = GitPull(wc, server)
        /\ Issue(<<"git pull">>, <<0>>)
        /\ Goto("submodules")
        /\ UNCHANGED <<prompts, err>>
     \/ Fail(wc, <<"git pull">>)

\* the stored modules are copied and the entry stays
RestoreModulesKeepingEntry(w) ==
  LET taken == IF desiredLocalBranch \in DOMAIN w.cache
               THEN [w EXCEPT !.modules = w.cache[desiredLocalBranch]]
               ELSE w IN
  [taken EXCEPT !.modules = IF taken.modules = Undefined THEN w.head ELSE taken.modules]

\* lines 182-197: take the stored modules of the branch when there are some, then
\* git submodule sync && git submodule update
RestoreModules(w) ==
  LET taken == IF desiredLocalBranch \in DOMAIN w.cache
               THEN [w EXCEPT !.modules = w.cache[desiredLocalBranch],
                              !.cache = Restrict(w.cache, DOMAIN w.cache \ {desiredLocalBranch})]
               ELSE w IN
  [taken EXCEPT !.modules = IF taken.modules = Undefined THEN w.head ELSE taken.modules]

\* lines 181-198: restore the sub-repositories, then return
StepSubmodules ==
  /\ pc = "submodules"
  /\ IF hasSubmodules(wc)
     THEN /\ wc' = RestoreModules(wc)
          /\ LET issued == (IF desiredLocalBranch \in DOMAIN wc.cache
                            THEN (IF wc.modules # Undefined
                                  THEN <<"rm -rf .git/modules">> ELSE <<>>)
                                 \o <<"mv .git/git-tools/modules/$BRANCH .git/modules">>
                            ELSE <<>>)
                           \o <<"git submodule sync", "git submodule update">> IN
             Issue(issued, Passing(issued))
     ELSE UNCHANGED <<wc, log, codes>>
  /\ Goto("done")
  /\ UNCHANGED <<prompts, err>>

\* ------------------------------------------------------------------ between calls
\* what somebody leaves pending in the working copy
DirtyChoices == {{}, {"untrackedDir"}, {"stagedAdd", "deleted"}, DirtyKinds}

Forget ==
  /\ pc' = "idle"
  /\ call' = NoCall
  /\ cur' = NoCurrent
  /\ log' = <<>>
  /\ codes' = <<>>
  /\ prompts' = <<>>
  /\ answers' = <<>>
  /\ err' = ""
  /\ pre' = NoWorkingCopy
  /\ prev' = NoPrev
  /\ nevents' = nevents + 1
  /\ UNCHANGED <<ins, argv, other, aborted, ncalls>>

\* somebody works in the working copy: commits on the checked-out branch or not,
\* and leaves files written, added or removed
UserWork(commits, kinds) ==
  /\ Idle /\ wc.exists /\ nevents < MaxEvents
  /\ commits \/ kinds # {}
  /\ wc' = [wc EXCEPT !.dirty = wc.dirty \cup kinds,
                      !.branches[wc.head].commit =
                         IF commits THEN HeadCommit(wc) \cup {LocalChange(nevents + 1)}
                         ELSE HeadCommit(wc)]
  /\ Forget
  /\ UNCHANGED server

\* the module state after somebody made a branch with a commit in a sub-repository
WorkedModules(modules) == modules \o <<"+", "new-branch">>

IsWorked(modules) == modules # Undefined /\ modules[Len(modules)] = "new-branch"

\* somebody makes a branch inside a sub-repository, checks it out and commits on it:
\* the parent sees the sub-repository at another commit than it records
SubmoduleWork ==
  /\ Idle /\ wc.exists /\ nevents < MaxEvents
  /\ hasSubmodules(wc) /\ wc.modules # Undefined /\ ~IsWorked(wc.modules)
  /\ wc' = [wc EXCEPT !.modules = WorkedModules(wc.modules),
                      !.dirty = wc.dirty \cup {"submoduleCommit"}]
  /\ Forget
  /\ UNCHANGED server

\* somebody pushes to the branch the checked-out branch tracks
ServerPush ==
  /\ Idle /\ wc.exists /\ nevents < MaxEvents
  /\ HasUpstream(wc)
  /\ server' = [server EXCEPT ![HeadTracking(wc)] =
                   server[HeadTracking(wc)] \cup {PushedChange(nevents + 1)}]
  /\ Forget
  /\ UNCHANGED wc

Next ==
  \/ \E args \in CheckoutInputs : Call(args)
  \/ StepClone
  \/ StepInspect
  \/ StepRemote
  \/ StepFetch
  \/ StepDirty
  \/ Confirm
  \/ Cancel
  \/ StepClean
  \/ StepSwitch
  \/ StepState
  \/ StepReset
  \/ StepPull
  \/ StepSubmodules
  \/ \E commits \in BOOLEAN, kinds \in DirtyChoices : UserWork(commits, kinds)
  \/ SubmoduleWork
  \/ ServerPush

Spec == Init /\ [][Next]_vars

\* the same program called with NamingInputs
NamingNext ==
  \/ \E args \in NamingInputs : Call(args)
  \/ StepClone
  \/ StepInspect
  \/ StepRemote
  \/ StepFetch
  \/ StepDirty
  \/ Confirm
  \/ Cancel
  \/ StepClean
  \/ StepSwitch
  \/ StepState
  \/ StepReset
  \/ StepPull
  \/ StepSubmodules
  \/ \E commits \in BOOLEAN, kinds \in DirtyChoices : UserWork(commits, kinds)
  \/ SubmoduleWork
  \/ ServerPush

NamingSpec == Init /\ [][NamingNext]_vars

\* the steps of checkout() that wait for external commands and queries only
Commands ==
  \/ StepClone
  \/ StepInspect
  \/ StepRemote
  \/ StepFetch
  \/ StepDirty
  \/ StepClean
  \/ StepSwitch
  \/ StepState
  \/ StepReset
  \/ StepPull
  \/ StepSubmodules

\* the operator answers a prompt of the gate
Answers == Confirm \/ Cancel

\* every external command ends: the close event of spawnP and the callback of exec
\* arrive, so a step that waits for commands only is taken
TerminationInputs ==
  [path : {CheckoutFolder}, origin : {OriginUrl}, branch : {Undefined, DevelopBranch},
   remote : {Undefined}, github : {Undefined}, interactive : BOOLEAN,
   preserveBranch : {FALSE}]
  \cup [path : {CheckoutFolder}, origin : {OriginUrl}, branch : {Undefined},
        remote : {ForkRemote}, github : {Undefined}, interactive : {FALSE},
        preserveBranch : {FALSE}]

TerminationNext ==
  \/ \E args \in TerminationInputs : Call(args)
  \/ Commands
  \/ Answers
  \/ \E commits \in BOOLEAN, kinds \in DirtyChoices : UserWork(commits, kinds)

TerminationSpec == Init /\ [][TerminationNext]_vars /\ WF_vars(Commands)

\* the same program on a working copy where somebody made a branch of their own,
\* which has no upstream
TopicBranch == <<"topic">>

TopicCheckedOut == GitCheckoutNewBranch(GitClone(InitialServer), TopicBranch)

UpstreamInit ==
  /\ server = InitialServer
  /\ wc \in {GitClone(InitialServer), TopicCheckedOut}
  /\ pc = "idle"
  /\ call = NoCall
  /\ cur = NoCurrent
  /\ log = <<>>
  /\ codes = <<>>
  /\ prompts = <<>>
  /\ answers = <<>>
  /\ err = ""
  /\ pre = NoWorkingCopy
  /\ prev = NoPrev
  /\ ins = NoInspection
  /\ argv = NoArgv
  /\ aborted = FALSE
  /\ other = NoOther
  /\ ncalls = 0
  /\ nevents = 0

UpstreamSpec == UpstreamInit /\ [][Next]_vars

\* ------------------------------------------------------------------ two callers on one path
\* checkout() is an async function: at each await the event loop may run another
\* caller.  Two calls on the same path share the working copy and nothing else;
\* the one that is not running is kept in `other` with what it had read so far.
ConcurrentInputs ==
  [path : {CheckoutFolder}, origin : {OriginUrl}, branch : {Undefined, DevelopBranch},
   remote : {Undefined}, github : {Undefined}, interactive : {FALSE},
   preserveBranch : {FALSE}]
  \cup [path : {CheckoutFolder}, origin : {OriginUrl}, branch : {Undefined},
        remote : {ForkRemote}, github : {Undefined}, interactive : {FALSE},
        preserveBranch : {FALSE}]

\* no call is taken to wait at an await while another runs
SuspendedNever(position) == FALSE

\* a call at this position waits at an await of lines 75-197
Suspended(position) == position \notin {"idle", "done", "failed", "cancelled"}

\* origin's master has gained a commit since the working copy was cloned
PushedServer ==
  [InitialServer EXCEPT ![DesiredTracking(OriginRemote, MasterBranch)] = @ \cup {PushedChange(1)}]

\* nothing has been read by a getState of its own
NoReading ==
  [fn |-> "none", outcome |-> "none", value |-> Undefined, reads |-> <<>>,
   start |-> NoWorkingCopy, steady |-> TRUE]

ConcurrentInit ==
  /\ server \in {InitialServer, PushedServer}
  /\ wc \in {GitClone(InitialServer), DevelopCheckedOut}
  /\ pc = "idle"
  /\ call = NoCall
  /\ cur = NoCurrent
  /\ log = <<>>
  /\ codes = <<>>
  /\ prompts = <<>>
  /\ answers = <<>>
  /\ err = ""
  /\ pre = NoWorkingCopy
  /\ prev = NoPrev
  /\ ins = NoReading
  /\ argv = NoArgv
  /\ aborted = FALSE
  /\ other = NoOther
  /\ ncalls = 0
  /\ nevents = 0

\* each of the two callers calls checkout() once
ConcurrentCall(args) == pc = "idle" /\ Call(args)

\* the running call waits at an await (or has ended) and the event loop goes on
\* with the other caller, which starts its call or resumes it
Yield ==
  /\ pc # "idle"
  /\ other.pc \notin {"done", "failed", "cancelled"}
  /\ other' = [pc |-> pc, call |-> call, cur |-> cur, log |-> log, codes |-> codes,
               prompts |-> prompts, answers |-> answers, err |-> err, pre |-> pre,
               prev |-> prev,
               suspended |-> (other.resumed \/ Suspended(pc)),
               resumed |-> other.suspended]
  /\ pc' = other.pc
  /\ call' = other.call
  /\ cur' = other.cur
  /\ log' = other.log
  /\ codes' = other.codes
  /\ prompts' = other.prompts
  /\ answers' = other.answers
  /\ err' = other.err
  /\ pre' = other.pre
  /\ prev' = other.prev
  /\ UNCHANGED <<server, wc, ins, argv, aborted, ncalls, nevents>>

\* getState, line 228: git rev-parse @
ReadLocalCommit(w) == HeadCommit(w)

\* the upstream's tip is taken to be the local tip
ReadRemoteCommitOfHead(w) == HeadCommit(w)

\* getState, line 229: git rev-parse @{u}
ReadRemoteCommit(w) == w.refs[HeadTracking(w)]

\* getState, line 230: git merge-base @ @{u}
ReadBaseCommit(w) == MergeBase(HeadCommit(w), w.refs[HeadTracking(w)])

\* a third caller calls getState on the path: its first query
GetStateLocal ==
  /\ ins.fn = "none" /\ wc.exists /\ HasUpstream(wc)
  /\ ins' = [fn |-> "getState", outcome |-> "pending", value |-> Undefined,
             reads |-> <<ReadLocalCommit(wc)>>, start |-> wc, steady |-> TRUE]
  /\ UNCHANGED <<server, wc, pc, call, cur, log, codes, prompts, answers, err, pre, prev,
                 argv, aborted, other, ncalls, nevents>>

\* its second query
GetStateRemote ==
  /\ ins.outcome = "pending" /\ Len(ins.reads) = 1
  /\ ins' = [ins EXCEPT !.reads = Append(@, ReadRemoteCommit(wc)),
                         !.steady = (@ /\ wc = ins.start)]
  /\ UNCHANGED <<server, wc, pc, call, cur, log, codes, prompts, answers, err, pre, prev,
                 argv, aborted, other, ncalls, nevents>>

\* its third query, and lines 233-239; git merge-base exits 1 when the tips have
\* no common ancestor, and getState rejects with that
GetStateBase ==
  /\ ins.outcome = "pending" /\ Len(ins.reads) = 2
  /\ ins' = IF ReadBaseCommit(wc) = {}
            THEN [ins EXCEPT !.steady = (@ /\ wc = ins.start), !.outcome = "rejected"]
            ELSE [ins EXCEPT !.reads = Append(@, ReadBaseCommit(wc)),
                             !.steady = (@ /\ wc = ins.start),
                             !.outcome = "resolved",
                             !.value = ClassifyState(ins.reads[1], ins.reads[2],
                                                     ReadBaseCommit(wc))]
  /\ UNCHANGED <<server, wc, pc, call, cur, log, codes, prompts, answers, err, pre, prev,
                 argv, aborted, other, ncalls, nevents>>

ConcurrentNext ==
  \/ \E args \in ConcurrentInputs : ConcurrentCall(args)
  \/ StepClone
  \/ StepInspect
  \/ StepRemote
  \/ StepFetch
  \/ StepDirty
  \/ StepSwitch
  \/ StepState
  \/ StepPull
  \/ StepSubmodules
  \/ Yield
  \/ GetStateLocal
  \/ GetStateRemote
  \/ GetStateBase

ConcurrentSpec == ConcurrentInit /\ [][ConcurrentNext]_vars

\* ------------------------------------------------------------------ the inspectors on their own
\* what the path handed to an inspector is: a directory with .git in it, a directory
\* with no repository around it, a directory inside a repository, or nothing
PathKinds == {"repository", "directory", "nested", "missing"}

PathOfKind(kind) ==
  CASE kind = "repository" -> CheckoutFolder
    [] kind = "directory" -> <<"/", "app">>
    [] kind = "nested" -> CheckoutFolder \o <<"/", "newFolder">>
    [] kind = "missing" -> <<"/", "tmp", "/", "nowhere">>

\* isGitRepo: pathExists(`${path}/.git`)
isGitRepoAnyDirectory(kind) == kind # "missing"

isGitRepo(kind) == kind = "repository"

\* the message of assertIsGit's error
NotAGitRepo(path) == <<"Repository at ">> \o path \o <<" is not a git repo.">>

\* the error execP rejects with when its command exits nonzero or cannot be started
ExecFailed(command) == <<"Command failed: ", command>>

Resolved(value, queries) ==
  [outcome |-> "resolved", value |-> value, error |-> Undefined, queries |-> queries]

Rejected(error, queries) ==
  [outcome |-> "rejected", value |-> Undefined, error |-> error, queries |-> queries]

\* the process ended on the unhandled rejection of a promise nobody awaited
Crashed(error, queries) ==
  [outcome |-> "crashed", value |-> Undefined, error |-> error, queries |-> queries]

\* assertIsGit, awaited
assertIsGit(path, kind) ==
  IF isGitRepo(kind) THEN Resolved(Undefined, <<>>) ELSE Rejected(NotAGitRepo(path), <<>>)

\* a git command run with cwd = path is answered by the repository at the path or
\* the one around it
GitAnswers(kind) == kind \in {"repository", "nested"}

\* getBranches: one {commit, name, tracking} per line of git for-each-ref refs/heads
getBranches(w) ==
  {[commit |-> w.branches[b].commit, name |-> b,
    tracking |-> IF w.branches[b].tracking = Undefined THEN <<>> ELSE w.branches[b].tracking]
     : b \in DOMAIN w.branches}

\* the git commands of an inspector, in the order it runs them
QueriesOf(fn) ==
  CASE fn = "getTrackingBranch" -> <<"git rev-parse --abbrev-ref --symbolic-full-name @{u}">>
    [] fn = "getBranch" -> <<"git rev-parse --abbrev-ref HEAD">>
    [] fn = "getState" -> <<"git rev-parse @", "git rev-parse @{u}", "git merge-base @ @{u}">>
    [] fn = "getBranches" -> <<"git for-each-ref refs/heads">>
    [] fn = "isDirty" -> <<"git status --porcelain">>

\* what the commands of inspector fn give when git answers them from repository w
AnswerOf(fn, w) ==
  LET q == QueriesOf(fn) IN
  CASE fn = "getTrackingBranch" ->
         IF HasUpstream(w) THEN Resolved(getTrackingBranch(w), q)
         ELSE Rejected(ExecFailed(q[1]), q)
    [] fn = "getBranch" -> Resolved(getBranch(w), q)
    [] fn = "getState" ->
         IF ~HasUpstream(w) THEN Rejected(ExecFailed(q[2]), SubSeq(q, 1, 2))
         ELSE IF MergeBase(HeadCommit(w), w.refs[HeadTracking(w)]) = {}
         THEN Rejected(ExecFailed(q[3]), q)
         ELSE Resolved(getState(w), q)
    [] fn = "getBranches" -> Resolved(getBranches(w), q)
    [] fn = "isDirty" -> Resolved(isDirty(w), q)

\* what the commands of inspector fn give at a path of this kind; w is the
\* repository at the path or around it
QueryOutcome(fn, kind, w) ==
  IF GitAnswers(kind) THEN AnswerOf(fn, w)
  ELSE Rejected(ExecFailed(QueriesOf(fn)[1]), SubSeq(QueriesOf(fn), 1, 1))

\* the inspectors that open with assertIsGit(path)
Asserting == {"getTrackingBranch", "getBranch", "getState", "getBranches"}

\* the outcomes of inspector fn.  assertIsGit(path) is called and not awaited: its
\* rejection stops nothing, the first command has been started when it arrives, and
\* depending on the runtime the unhandled rejection ends the process or is only
\* reported.
InspectorOutcomes(fn, path, kind, w) ==
  IF fn \in Asserting /\ assertIsGit(path, kind).outcome = "rejected"
  THEN {QueryOutcome(fn, kind, w),
        Crashed(assertIsGit(path, kind).error, SubSeq(QueriesOf(fn), 1, 1))}
  ELSE {QueryOutcome(fn, kind, w)}

\* the commits a branch or a remote-tracking ref can be at: histories made of up to
\* three changes, some of them sharing nothing
InspectCommits == SUBSET {FirstChange, LocalChange(1), PushedChange(1)} \ {{}}

\* a repository with master at localCommit and origin/master at remoteCommit
InspectRepository(localCommit, remoteCommit, tracking) ==
  [exists |-> TRUE, remotes |-> {OriginRemote},
   refs |-> (DesiredTracking(OriginRemote, MasterBranch) :> remoteCommit),
   branches |-> (MasterBranch :> [commit |-> localCommit, tracking |-> tracking]),
   head |-> MasterBranch, dirty |-> {}, modules |-> Undefined, cache |-> EmptyMap]

InspectRepositories ==
  {InspectRepository(l, r, DesiredTracking(OriginRemote, MasterBranch))
     : l \in InspectCommits, r \in InspectCommits}
  \cup {InspectRepository(l, {FirstChange}, Undefined) : l \in InspectCommits}

InspectInit ==
  /\ server = InitialServer
  /\ \E kind \in PathKinds :
       \/ /\ GitAnswers(kind)
          /\ wc = GitClone(InitialServer)
          /\ ins = [NoInspection EXCEPT !.path = PathOfKind(kind), !.kind = kind,
                                        !.after = "clone"]
       \/ /\ GitAnswers(kind)
          /\ wc \in InspectRepositories
          /\ ins = [NoInspection EXCEPT !.path = PathOfKind(kind), !.kind = kind]
       \/ /\ ~GitAnswers(kind)
          /\ wc = NoWorkingCopy
          /\ ins = [NoInspection EXCEPT !.path = PathOfKind(kind), !.kind = kind]
  /\ pc = "idle"
  /\ call = NoCall
  /\ cur = NoCurrent
  /\ log = <<>>
  /\ codes = <<>>
  /\ prompts = <<>>
  /\ answers = <<>>
  /\ err = ""
  /\ pre = NoWorkingCopy
  /\ prev = NoPrev
  /\ argv = NoArgv
  /\ aborted = FALSE
  /\ other = NoOther
  /\ ncalls = 0
  /\ nevents = 0

\* the call of inspector fn settles with outcome o
Settle(fn, o) ==
  /\ ins' = [path |-> ins.path, kind |-> ins.kind, after |-> ins.after, fn |-> fn,
             outcome |-> o.outcome, value |-> o.value, error |-> o.error,
             queries |-> o.queries]
  /\ UNCHANGED <<server, wc, pc, call, cur, log, codes, prompts, answers, err, pre, prev,
                 argv, other, aborted, ncalls, nevents>>

Inspect(fn) == \E o \in InspectorOutcomes(fn, ins.path, ins.kind, wc) : Settle(fn, o)

InspectAssertIsGit == Settle("assertIsGit", assertIsGit(ins.path, ins.kind))

InspectGetTrackingBranch == Inspect("getTrackingBranch")

InspectGetBranch == Inspect("getBranch")

InspectGetState == Inspect("getState")

InspectGetBranches == Inspect("getBranches")

InspectIsDirty == Inspect("isDirty")

\* somebody writes, adds or removes files in the repository
InspectEdit(kinds) ==
  /\ GitAnswers(ins.kind) /\ kinds # {}
  /\ wc' = [wc EXCEPT !.dirty = wc.dirty \cup kinds]
  /\ ins' = [NoInspection EXCEPT !.path = ins.path, !.kind = ins.kind, !.after = "edit"]
  /\ UNCHANGED <<server, pc, call, cur, log, codes, prompts, answers, err, pre, prev,
                 argv, other, aborted, ncalls, nevents>>

\* git add -A && git commit: everything pending goes into a new commit, made of a
\* change no history of InspectCommits holds
InspectCommitAll ==
  /\ GitAnswers(ins.kind) /\ wc.dirty # {} /\ nevents < MaxEvents
  /\ wc' = [wc EXCEPT !.dirty = {},
                      !.branches[wc.head].commit = HeadCommit(wc) \cup {LocalChange(nevents + 2)}]
  /\ ins' = [NoInspection EXCEPT !.path = ins.path, !.kind = ins.kind, !.after = "commit"]
  /\ nevents' = nevents + 1
  /\ UNCHANGED <<server, pc, call, cur, log, codes, prompts, answers, err, pre, prev, argv, other,
                 aborted, ncalls>>

InspectNext ==
  \/ InspectAssertIsGit
  \/ InspectGetTrackingBranch
  \/ InspectGetBranch
  \/ InspectGetState
  \/ InspectGetBranches
  \/ InspectIsDirty
  \/ \E kinds \in SUBSET DirtyKinds : InspectEdit(kinds)
  \/ InspectCommitAll

InspectSpec == InspectInit /\ [][InspectNext]_vars

\* ------------------------------------------------------------------ the command line
\* the option definitions of the checkout subcommand
CliOptions == {"origin", "path", "branch", "remote", "interactive", "silent"}

\* a command line: the subcommand, then the options as <<name, text>>, <<>> being
\* the text of an option given without one
CommandLine(method, options) == [method |-> method, options |-> options]

RECURSIVE KnownOptions(_)
\* commandLineArgs(definitions, { stopAtFirstUnknown : true }): the options are read
\* up to the first one that has no definition; it and all after it go to _unknown
KnownOptions(options) ==
  IF options = <<>> THEN <<>>
  ELSE IF Head(options)[1] \notin CliOptions THEN <<>>
  ELSE <<Head(options)>> \o KnownOptions(Tail(options))

HasOption(options, name) == \E i \in DOMAIN options : options[i][1] = name

OptionText(options, name) ==
  IF HasOption(options, name)
  THEN options[CHOOSE i \in DOMAIN options : options[i][1] = name][2]
  ELSE Undefined

\* the flags object handed to checkout(), as checkout() destructures it: a String
\* option that was not read is undefined, a Boolean option is true when present;
\* silent only chooses where the output of the commands goes
CliFlags(options) ==
  LET known == KnownOptions(options) IN
  [path |-> OptionText(known, "path"), origin |-> OptionText(known, "origin"),
   branch |-> OptionText(known, "branch"), remote |-> OptionText(known, "remote"),
   github |-> Undefined, interactive |-> HasOption(known, "interactive"),
   preserveBranch |-> FALSE]

OriginAndPath == <<<<"origin", OriginUrl>>, <<"path", CheckoutFolder>>>>

\* the command lines the model runs
CliInputs ==
  {CommandLine("checkout", OriginAndPath),
   CommandLine("checkout", OriginAndPath \o <<<<"silent", <<>>>>>>),
   CommandLine("checkout", OriginAndPath \o <<<<"interactive", <<>>>>>>),
   CommandLine("checkout", OriginAndPath \o <<<<"branch", DevelopBranch>>>>),
   CommandLine("checkout", OriginAndPath \o <<<<"remote", ForkRemote>>, <<"branch", DevelopBranch>>>>),
   CommandLine("checkout", OriginAndPath \o <<<<"github", <<"fork", ":", "develop">>>>>>),
   CommandLine("checkout", <<<<"github", <<"fork", ":", "develop">>>>>> \o OriginAndPath),
   CommandLine("checkout", <<<<"origin", OriginUrl>>>>),
   CommandLine("status", OriginAndPath)}

\* a process is started with a command line
CliInit ==
  /\ server = InitialServer
  /\ wc \in {NoWorkingCopy, GitClone(InitialServer), DevelopCheckedOut}
  /\ pc = "idle"
  /\ call = NoCall
  /\ cur = NoCurrent
  /\ log = <<>>
  /\ codes = <<>>
  /\ prompts = <<>>
  /\ answers = <<>>
  /\ err = ""
  /\ pre = NoWorkingCopy
  /\ prev = NoPrev
  /\ ins = NoInspection
  /\ argv \in CliInputs
  /\ aborted = FALSE
  /\ other = NoOther
  /\ ncalls = 0
  /\ nevents = 0

\* if (flags.method === "checkout") gitTools.checkout(flags)
CliMain ==
  /\ argv.method = "checkout"
  /\ Call(CliFlags(argv.options))

CliNext ==
  \/ CliMain
  \/ StepClone
  \/ StepInspect
  \/ StepRemote
  \/ StepFetch
  \/ StepDirty
  \/ Confirm
  \/ Cancel
  \/ StepClean
  \/ StepSwitch
  \/ StepState
  \/ StepReset
  \/ StepPull
  \/ StepSubmodules
  \/ \E commits \in BOOLEAN, kinds \in DirtyChoices : UserWork(commits, kinds)
  \/ SubmoduleWork
  \/ ServerPush

CliSpec == CliInit /\ [][CliNext]_vars

\* ------------------------------------------------------------------ checkout() with the clean flag
\* src/index.js: the checkout() that takes clean instead of github and interactive.
\* clean is true when absent (line 38); nothing validates the arguments.
CleanInputs ==
  [path : {CheckoutFolder}, origin : {OriginUrl}, branch : {Undefined, DevelopBranch},
   remote : {Undefined, ForkRemote}, clean : BOOLEAN]

cleanRemote == IF call.remote = Undefined THEN OriginRemote ELSE call.remote

cleanBranch == IF call.branch = Undefined THEN MasterBranch ELSE call.branch

CleanPositions ==
  {"clean.clone", "clean.inspect", "clean.remote", "clean.fetch", "clean.clean",
   "clean.switch", "clean.pull"}

\* whether the clean step runs its command
CleaningAlways(clean) == TRUE

Cleaning(clean) == clean = TRUE

\* lines 33-40: the call starts
CleanCall(args) ==
  /\ Idle
  /\ ncalls < MaxCalls
  /\ ncalls' = ncalls + 1
  /\ call' = args
  /\ pre' = wc
  /\ prev' = NoPrev
  /\ log' = <<>>
  /\ codes' = <<>>
  /\ prompts' = <<>>
  /\ answers' = <<>>
  /\ err' = ""
  /\ pc' = "clean.clone"
  /\ UNCHANGED <<server, wc, cur, ins, argv, other, aborted, nevents>>

\* lines 52-62: clone when the path does not exist
CleanClone ==
  /\ pc = "clean.clone"
  /\ IF PathExists(wc)
     THEN /\ Goto("clean.inspect")
          /\ UNCHANGED <<wc, log, codes, prompts, err>>
     ELSE \/ /\ wc' = GitClone(server)
             /\ Issue(<<"git clone --recurse-submodules">>, <<0>>)
             /\ Goto("clean.inspect")
             /\ UNCHANGED <<prompts, err>>
          \/ Fail(wc, <<"git clone --recurse-submodules">>)

\* lines 64-69: the identifiers, then the current tracking label
CleanInspect ==
  /\ pc = "clean.inspect"
  /\ cur' = [tracking |-> getTrackingBranch(wc), branch |-> Undefined,
             name |-> RepositoryName(call.origin)]
  /\ Issue(<<"git rev-parse --abbrev-ref --symbolic-full-name @{u}">>, <<0>>)
  /\ pc' = "clean.remote"
  /\ UNCHANGED <<server, wc, call, prompts, answers, err, pre, prev, ins, argv, other, aborted, ncalls,
                 nevents>>

\* lines 71-79: register the remote of a fork
CleanRemote ==
  /\ pc = "clean.remote"
  /\ IF cleanRemote = OriginRemote
     THEN UNCHANGED <<wc, log, codes>>
     ELSE IF RemoteFound(wc, cleanRemote)
     THEN /\ Issue(<<"git remote | grep">>, <<0>>)
          /\ UNCHANGED wc
     ELSE /\ wc' = [wc EXCEPT !.remotes = wc.remotes \cup {cleanRemote}]
          /\ Issue(<<"git remote | grep", "git remote add">>, <<1, 0>>)
  /\ Goto("clean.fetch")
  /\ UNCHANGED <<prompts, err>>

\* line 81: fetch the target remote
CleanFetch ==
  /\ pc = "clean.fetch"
  /\ \/ /\ wc' = GitFetch(wc, server, cleanRemote)
        /\ Issue(<<"git fetch --recurse-submodules">>, <<0>>)
        /\ Goto("clean.clean")
        /\ UNCHANGED <<prompts, err>>
     \/ Fail(wc, <<"git fetch --recurse-submodules">>)

\* lines 83-86: git reset --hard <currentTracking> && git clean -f, when clean
CleanClean ==
  /\ pc = "clean.clean"
  /\ IF Cleaning(call.clean)
     THEN /\ wc' = GitCleanF(GitResetHard(wc, cur.tracking))
          /\ Issue(<<"git reset --hard", "git clean -f">>, <<0, 0>>)
     ELSE UNCHANGED <<wc, log, codes>>
  /\ Goto("clean.switch")
  /\ UNCHANGED <<prompts, err>>

\* lines 88-110: create the branch when missing and check it out; git checkout
\* refuses when a pending change is in its way and carries the changes otherwise
CleanSwitch ==
  /\ pc = "clean.switch"
  /\ LET local == DesiredLocalBranch(cleanRemote, cleanBranch)
         label == DesiredTracking(cleanRemote, cleanBranch)
         create == ~GitShowRef(wc, local)
         probe == <<"git show-ref">> \o (IF create THEN <<"git branch --track">> ELSE <<>>)
         made == IF create THEN GitBranchTrack(wc, local, label) ELSE wc IN
     IF NeedsSwitch(cur.tracking, label)
     THEN IF create /\ ~CanGitBranchTrack(wc, local, label)
          THEN /\ wc' = wc
               /\ Issue(probe, <<1, 1>>)
               /\ err' = CommandFailed
               /\ Goto("failed")
               /\ UNCHANGED prompts
          ELSE \/ /\ wc' = GitCheckout(made, local)
                  /\ Issue(Append(probe, "git checkout"),
                           ProbeFailed(Passing(Append(probe, "git checkout")), create))
                  /\ Goto("clean.pull")
                  /\ UNCHANGED <<prompts, err>>
               \/ /\ isDirty(wc)
                  /\ wc' = made
                  /\ Issue(Append(probe, "git checkout"),
                           ProbeFailed(Failing(Append(probe, "git checkout")), create))
                  /\ err' = CommandFailed
                  /\ Goto("failed")
                  /\ UNCHANGED prompts
     ELSE /\ Goto("clean.pull")
          /\ UNCHANGED <<wc, log, codes, prompts, err>>

\* line 112: git pull
CleanPull ==
  /\ pc = "clean.pull"
  /\ \/ /\ wc' = GitPull(wc, server)
        /\ Issue(<<"git pull">>, <<0>>)
        /\ Goto("done")
        /\ UNCHANGED <<prompts, err>>
     \/ Fail(wc, <<"git pull">>)

CleanInit ==
  /\ server = InitialServer
  /\ wc \in {NoWorkingCopy, GitClone(InitialServer)}
  /\ pc = "idle"
  /\ call = NoCall
  /\ cur = NoCurrent
  /\ log = <<>>
  /\ codes = <<>>
  /\ prompts = <<>>
  /\ answers = <<>>
  /\ err = ""
  /\ pre = NoWorkingCopy
  /\ prev = NoPrev
  /\ ins = NoInspection
  /\ argv = NoArgv
  /\ aborted = FALSE
  /\ other = NoOther
  /\ ncalls = 0
  /\ nevents = 0

CleanNext ==
  \/ \E args \in CleanInputs : CleanCall(args)
  \/ CleanClone
  \/ CleanInspect
  \/ CleanRemote
  \/ CleanFetch
  \/ CleanClean
  \/ CleanSwitch
  \/ CleanPull
  \/ \E commits \in BOOLEAN, kinds \in DirtyChoices : UserWork(commits, kinds)
  \/ ServerPush

CleanSpec == CleanInit /\ [][CleanNext]_vars

\* ------------------------------------------------------------------ claims
Range(seq) == {seq[i] : i \in 1..Len(seq)}

\* the commands that change the files, the index, the checked-out branch or a branch tip
DestructiveCommands ==
  {"git submodule foreach clean", "git submodule update", "git reset", "git clean -ffd",
   "git checkout .", "git submodule deinit --all",
   "mv .git/modules .git/git-tools/modules/$BRANCH", "git checkout", "git reset --hard",
   "git clean -f", "git pull", "rm -rf .git/modules",
   "mv .git/git-tools/modules/$BRANCH .git/modules", "git submodule sync"}

\* C1: every checkout() that returns has the derived local branch checked out,
\* tracking remote/branch; with no branch and no remote the target is origin/master.
C1_ReturnsOnTarget ==
  pc = "done" =>
    /\ getBranch(wc) = (IF ResolvedRemote(call) = OriginRemote THEN ResolvedBranch(call)
                        ELSE ResolvedRemote(call) \o <<"-">> \o ResolvedBranch(call))
    /\ getTrackingBranch(wc) = ResolvedRemote(call) \o <<"/">> \o ResolvedBranch(call)
    /\ (call.remote = Undefined /\ call.branch = Undefined /\ call.github = Undefined
          => getBranch(wc) = MasterBranch
             /\ getTrackingBranch(wc) = <<"origin", "/", "master">>)

\* C2: a checkout() without the gate that returns on a working copy that was dirty
\* leaves nothing pending: no untracked file or directory, no staged addition, no
\* deleted tracked file.
C2_DirtyCheckoutEndsClean ==
  (pc = "done" /\ call.interactive = FALSE /\ pre.dirty # {}) =>
    /\ wc.dirty = {}
    /\ ~isDirty(wc)

C2_Witness ==
  /\ pc = "done" /\ call.interactive = FALSE
  /\ pre.dirty = DirtyKinds
  /\ wc.dirty = {}
  /\ "git clean -ffd" \in Range(log)

\* the relative state of local branch b of working copy w
StateOf(w, b) ==
  LET localCommit == w.branches[b].commit
      remoteCommit == w.refs[w.branches[b].tracking] IN
  IF localCommit = remoteCommit THEN "equal"
  ELSE IF localCommit \subseteq remoteCommit THEN "behind"
  ELSE "ahead"

\* the changes only local branch b of working copy w has
LocalOnly(w, b) == w.branches[b].commit \ w.refs[w.branches[b].tracking]

\* C3: a checkout() without the gate whose target branch was ahead of its tracking
\* ref (diverged included) returns equal to the remote, the local-only commits gone
\* from the branch and on no remote.
C3_AheadIsDiscarded ==
  (/\ pc = "done" /\ call.interactive = FALSE
   /\ desiredLocalBranch \in DOMAIN pre.branches
   /\ StateOf(pre, desiredLocalBranch) = "ahead") =>
    /\ getState(wc) = "equal"
    /\ LocalOnly(pre, desiredLocalBranch) \cap HeadCommit(wc) = {}
    /\ \A l \in DOMAIN server : LocalOnly(pre, desiredLocalBranch) \cap server[l] = {}

\* C4: with the gate on and a dirty working copy, until the operator has confirmed a
\* prompt no destructive command has been issued and the pending changes, the
\* checked-out branch and the branches are those the call found.
C4_NothingBeforeConfirmation ==
  (/\ call.interactive = TRUE /\ pre.dirty # {}
   /\ "enter" \notin Range(answers)) =>
    /\ Range(log) \cap DestructiveCommands = {}
    /\ wc.dirty = pre.dirty
    /\ wc.head = pre.head
    /\ wc.branches = pre.branches

C4_Witness ==
  /\ pc = "cancelled" /\ call.interactive = TRUE
  /\ prompts = <<DirtyPrompt>> /\ answers = <<"ctrl+c">>
  /\ pre.dirty = DirtyKinds /\ wc.dirty = DirtyKinds
  /\ "git fetch --recurse-submodules" \in Range(log)

\* the ahead prompt is the last one written and is unanswered or was declined
AheadPromptOpen ==
  /\ prompts # <<>> /\ prompts[Len(prompts)] = AheadPrompt
  /\ \/ pc = "promptAhead"
     \/ pc = "cancelled"

\* the commands of the steps after the second gate
LaterCommands ==
  {"git reset --hard", "git clean -f", "git pull", "rm -rf .git/modules",
   "mv .git/git-tools/modules/$BRANCH .git/modules", "git submodule sync"}

\* C5 as stated: declining the ahead prompt leaves the working copy as it was before
\* the call (branch, commits, pending changes) and no later step runs.
C5_DeclineLeavesCallStartState ==
  AheadPromptOpen =>
    /\ wc.head = pre.head
    /\ wc.dirty = pre.dirty
    /\ \A b \in DOMAIN pre.branches : wc.branches[b] = pre.branches[b]
    /\ Range(log) \cap LaterCommands = {}

\* C5 amended: while the ahead prompt is unanswered or declined no later step has
\* run and every branch keeps the commits it had before the call; the hard reset is
\* issued under the gate only after the ahead prompt was confirmed; declining changes
\* nothing (steps 5 and 6 may have cleaned and switched before the prompt).
C5_DeclineStopsAtPrompt ==
  /\ [](AheadPromptOpen =>
         /\ Range(log) \cap LaterCommands = {}
         /\ \A b \in DOMAIN pre.branches : wc.branches[b] = pre.branches[b])
  /\ []((call.interactive = TRUE /\ "git reset --hard" \in Range(log)) =>
         /\ prompts # <<>>
         /\ Len(answers) = Len(prompts)
         /\ prompts[Len(prompts)] = AheadPrompt
         /\ answers[Len(answers)] = "enter")
  /\ [][(pc = "promptAhead" /\ pc' = "cancelled") => (wc' = wc /\ log' = log)]_vars

C5_Witness ==
  /\ pc = "cancelled" /\ prompts = <<DirtyPrompt, AheadPrompt>>
  /\ answers = <<"enter", "ctrl+c">>
  /\ pre.dirty # {} /\ wc.dirty = {}
  /\ getState(wc) = "ahead"

\* C6: with interactive=false no prompt is written and no input is awaited, also on
\* a dirty working copy that is ahead.
C6_NoGateWhenNotInteractive ==
  call.interactive = FALSE =>
    /\ prompts = <<>>
    /\ answers = <<>>
    /\ pc \notin {"promptDirty", "promptAhead", "cancelled"}

C6_Witness ==
  /\ pc = "done" /\ call.interactive = FALSE /\ prompts = <<>>
  /\ pre.dirty # {} /\ StateOf(pre, pre.head) = "ahead"
  /\ {"git clean -ffd", "git reset --hard"} \subseteq Range(log)

\* the prompts of one call: at most the dirty prompt, then at most the ahead prompt
C7_PromptOrder ==
  /\ prompts \in {<<>>, <<DirtyPrompt>>, <<AheadPrompt>>, <<DirtyPrompt, AheadPrompt>>}
  /\ (DirtyPrompt \in Range(prompts) => call.interactive = TRUE /\ pre.dirty # {})
  /\ (AheadPrompt \in Range(prompts) /\ pc \in {"promptAhead", "cancelled"}
        => call.interactive = TRUE /\ getState(wc) = "ahead")

\* C7: with interactive=true a call prompts at most twice, the dirty prompt before
\* the ahead prompt, each only in its case; a call that returns leaves the working
\* copy clean and equal to the remote.
C7_PromptsThenCleanAndEqual ==
  call.interactive = TRUE =>
    /\ C7_PromptOrder
    /\ (pc = "done" => ~isDirty(wc) /\ getState(wc) = "equal")

\* C8: a checkout() that returns right after one with the same arguments returned
\* leaves the branch, the tracking label, the dirty flag (false) and the set of local
\* branches as the first left them.
C8_Idempotent ==
  (pc = "done" /\ prev.ok) =>
    /\ prev.args = call
    /\ Observed(wc) = prev.observed
    /\ ~isDirty(wc)

C8_Witness ==
  /\ pc = "done" /\ prev.ok
  /\ getBranch(wc) = DevelopBranch
  /\ hasSubmodules(wc)
  /\ Observed(wc) = prev.observed

NoColon(s) == \A i \in 1..Len(s) : s[i] # ":"

C10_GithubOverrides ==
  call.github = <<"fork", ":", "develop">> =>
    /\ ResolvedRemote(call) = ForkRemote
    /\ ResolvedBranch(call) = DevelopBranch
    /\ desiredLocalBranch = <<"fork", "-", "develop">>
    /\ desiredTracking = <<"fork", "/", "develop">>
    /\ (pc = "done" => getBranch(wc) = <<"fork", "-", "develop">>)
    /\ (pc = "done" /\ ~pre.exists
          => getTrackingBranch(wc) = <<"fork", "/", "develop">>)

C10_Witness ==
  /\ pc = "done" /\ call.github = <<"fork", ":", "develop">>
  /\ call.branch = ForkDevelopBranch
  /\ getBranch(wc) = <<"fork", "-", "develop">>
  /\ getTrackingBranch(wc) = <<"fork", "/", "develop">>

\* the classification the three results stand for: equal tips, a local tip that is a
\* strict ancestor of the tracking tip, anything else
RelativeState(localCommit, remoteCommit) ==
  IF localCommit = remoteCommit THEN "equal"
  ELSE IF localCommit \subseteq remoteCommit THEN "behind"
  ELSE "ahead"

\* getState on tips that share history answers with their classification
C11_ClassifiesRelatedTips ==
  (/\ ins.fn = "getState" /\ ins.kind = "repository" /\ HasUpstream(wc)
   /\ HeadCommit(wc) \cap wc.refs[HeadTracking(wc)] # {}) =>
    /\ ins.outcome = "resolved"
    /\ ins.value = RelativeState(HeadCommit(wc), wc.refs[HeadTracking(wc)])

\* C11: getState answers for every pair of a local tip and a tracking tip: equal iff
\* the tips are equal, behind iff the local tip is a strict ancestor of the tracking
\* tip, ahead in every other case; there is no fourth result.
C11_ClassifiesEveryPair ==
  (ins.fn = "getState" /\ ins.kind = "repository" /\ HasUpstream(wc)) =>
    /\ ins.outcome = "resolved"
    /\ ins.value = RelativeState(HeadCommit(wc), wc.refs[HeadTracking(wc)])

\* C12: isDirty answers true exactly when something is pending: true after any
\* non-empty combination of pending changes, false right after a clone and right
\* after a commit that takes everything pending.
C12_DirtyDetection ==
  (ins.fn = "isDirty" /\ GitAnswers(ins.kind)) =>
    /\ ins.outcome = "resolved"
    /\ ins.value = (wc.dirty # {})
    /\ (ins.after \in {"clone", "commit"} => ins.value = FALSE)
    /\ (ins.after = "edit" => ins.value = TRUE)

C12_Witness ==
  /\ ins.fn = "isDirty" /\ ins.kind = "repository" /\ ins.after = "commit"
  /\ ins.outcome = "resolved" /\ ins.value = FALSE
  /\ nevents > 0

\* C13: assertIsGit rejects with "Repository at <path> is not a git repo." exactly
\* when the path has no .git in it; otherwise it resolves; it runs no command and
\* leaves the working copy as it is.
C13_AssertIsGit ==
  /\ [](ins.fn = "assertIsGit" =>
         /\ ins.queries = <<>>
         /\ IF ins.kind = "repository"
            THEN ins.outcome = "resolved"
            ELSE /\ ins.outcome = "rejected"
                 /\ ins.error = <<"Repository at ">> \o ins.path \o <<" is not a git repo.">>)
  /\ [][ins'.fn = "assertIsGit" => wc' = wc]_vars

C13_Witness ==
  /\ ins.fn = "assertIsGit" /\ ins.kind = "nested"
  /\ ins.outcome = "rejected"
  /\ ins.error = <<"Repository at ", "/", "tmp", "/", "checkout", "/", "newFolder",
                   " is not a git repo.">>

\* C14: getBranch, getTrackingBranch, getState and getBranches called on a path that
\* is not a repository reject with the not-a-git-repo error and run no git command.
C14_InspectorsRequireRepository ==
  (ins.fn \in Asserting /\ ins.kind # "repository") =>
    /\ ins.outcome = "rejected"
    /\ ins.error = NotAGitRepo(ins.path)
    /\ ins.queries = <<>>

\* C15: getTrackingBranch resolves with the remote/branch label of the checked-out
\* branch's upstream; when the branch has no upstream it rejects with an error of its
\* own kind, not with the failure of the command.
C15_TrackingBranchOrNoTrackingBranch ==
  (ins.fn = "getTrackingBranch" /\ ins.kind = "repository") =>
    IF wc.branches[wc.head].tracking # Undefined
    THEN /\ ins.outcome = "resolved"
         /\ ins.value = wc.branches[wc.head].tracking
    ELSE /\ ins.outcome = "rejected"
         /\ ins.error # ExecFailed("git rev-parse --abbrev-ref --symbolic-full-name @{u}")

\* the commands checkout() runs only to learn whether something exists
Probes == {"git remote | grep", "git show-ref"}

\* C16 as stated: every command of a call started after the one before it exited 0;
\* a command that exits nonzero is the last one issued and the call fails with the
\* error of that command.
C16_AnyFailureStopsTheCall ==
  /\ Len(codes) = Len(log)
  /\ \A i \in 1..Len(codes) :
       codes[i] # 0 => (i = Len(codes) /\ pc = "failed" /\ err = CommandFailed)

\* C16 amended: the same for every command but the two existence probes; a probe
\* that exits nonzero is followed by the command that registers the remote or
\* creates the branch.  A call that failed on a command has that command last in
\* its log, and what the commands before it did stays done.
C16_FailureStopsTheCall ==
  /\ Len(codes) = Len(log)
  /\ \A i \in 1..Len(codes) :
       codes[i] # 0 =>
         \/ i = Len(codes) /\ pc = "failed" /\ err = CommandFailed /\ log[i] \notin Probes
         \/ /\ i < Len(codes)
            /\ <<log[i], log[i + 1]>> \in {<<"git remote | grep", "git remote add">>,
                                           <<"git show-ref", "git branch --track">>}
  /\ (pc = "failed" /\ err = CommandFailed) =>
       /\ codes # <<>> /\ codes[Len(codes)] # 0
       /\ ("git remote add" \in Range(log) => ResolvedRemote(call) \in wc.remotes)
       /\ \A i \in 1..Len(log) :
            (log[i] = "git branch --track" /\ codes[i] = 0) => desiredLocalBranch \in DOMAIN wc.branches

C16_Witness ==
  /\ pc = "failed" /\ err = CommandFailed
  /\ log[Len(log)] = "git pull" /\ codes[Len(codes)] # 0
  /\ \E i \in 1..Len(log) : log[i] = "git show-ref" /\ codes[i] # 0
  /\ \E i \in 1..Len(log) : log[i] = "git remote | grep" /\ codes[i] # 0
  /\ desiredLocalBranch \in DOMAIN wc.branches \ DOMAIN pre.branches

\* the call is past lines 73-83
PastClone == pc \notin {"idle", "clone"} /\ (pc = "failed" => err = CommandFailed)

\* C17: a call issues the clone exactly when the path did not exist, as its first
\* command; an existing path is taken as it is; no step of any call removes the
\* working copy.
C17_ClonesExactlyWhenAbsent ==
  /\ [](PastClone =>
         /\ ("git clone --recurse-submodules" \in Range(log)) <=> ~pre.exists
         /\ (~pre.exists => log[1] = "git clone --recurse-submodules")
         /\ (pre.exists /\ pc = "inspect" => wc = pre))
  /\ [][wc.exists => wc'.exists]_vars

C17_Witness ==
  /\ pc = "done" /\ ~pre.exists /\ wc.exists
  /\ log[1] = "git clone --recurse-submodules" /\ codes[1] = 0
  /\ getBranch(wc) = DevelopBranch

\* C18: the local branches only grow.  A call adds at most the desired local
\* branch (and master, when it clones), only when no branch of that name exists,
\* with one git branch --track; every branch keeps its name and upstream; a fresh
\* checkout of develop leaves exactly develop and master.
C18_BranchesOnlyGrow ==
  /\ [](pc # "idle" =>
         /\ DOMAIN pre.branches \subseteq DOMAIN wc.branches
         /\ \A b \in DOMAIN pre.branches : wc.branches[b].tracking = pre.branches[b].tracking
         /\ DOMAIN wc.branches \subseteq
              DOMAIN pre.branches \cup {desiredLocalBranch}
              \cup (IF pre.exists THEN {} ELSE {MasterBranch})
         /\ (desiredLocalBranch \in DOMAIN pre.branches => "git branch --track" \notin Range(log))
         /\ Cardinality({i \in 1..Len(log) : log[i] = "git branch --track"}) <= 1
         /\ (pc = "done" /\ ~pre.exists /\ desiredTracking = <<"origin", "/", "develop">>
               => DOMAIN wc.branches = {MasterBranch, DevelopBranch}))
  /\ [][DOMAIN wc.branches \subseteq DOMAIN wc'.branches]_vars

C18_Witness ==
  /\ pc = "done" /\ pre.exists
  /\ DOMAIN pre.branches = {MasterBranch, DevelopBranch}
  /\ DOMAIN wc.branches = {MasterBranch, DevelopBranch, ForkDevelopBranch}
  /\ "git branch --track" \in Range(log)

\* C19: the module state of a branch with sub-repositories survives leaving the
\* branch and coming back: a call that leaves branch A stores A's module state,
\* with the branch made inside the sub-repository, under A's name, and a call that
\* returns on A takes the stored state back instead of initialising a new one.
C19_ModulesRoundTrip ==
  /\ (pc = "done" /\ IsWorked(pre.modules) /\ wc.head # pre.head) =>
       /\ pre.head \in DOMAIN wc.cache
       /\ wc.cache[pre.head] = pre.modules
  /\ (/\ pc = "done" /\ hasSubmodules(wc)
      /\ wc.head \in DOMAIN pre.cache /\ IsWorked(pre.cache[wc.head])) =>
       /\ wc.modules = pre.cache[wc.head]
       /\ wc.head \notin DOMAIN wc.cache
  /\ (pc = "done" /\ IsWorked(pre.modules) /\ wc.head = pre.head) => wc.modules = pre.modules

C19_Witness ==
  /\ pc = "done" /\ wc.head = DevelopBranch /\ pre.head = MasterBranch
  /\ pre.modules = Undefined
  /\ wc.modules = <<"develop", "+", "new-branch">>
  /\ "mv .git/git-tools/modules/$BRANCH .git/modules" \in Range(log)

\* C20: a call with preserveBranch = true on an existing working copy returns on the
\* branch that was checked out, equal to its upstream (on develop when develop was
\* checked out and behind); on a fresh path it returns on master tracking
\* origin/master.
C20_PreserveBranchKeepsBranch ==
  (pc = "done" /\ call.preserveBranch = TRUE) =>
    IF pre.exists
    THEN /\ getBranch(wc) = getBranch(pre)
         /\ getState(wc) = "equal"
    ELSE /\ getBranch(wc) = MasterBranch
         /\ getTrackingBranch(wc) = <<"origin", "/", "master">>

\* what the code does with preserveBranch: the call is the call without it
C20_PreserveBranchIgnored ==
  (pc = "done" /\ call.preserveBranch = TRUE) =>
    /\ getBranch(wc) = MasterBranch
    /\ getTrackingBranch(wc) = <<"origin", "/", "master">>
    /\ getState(wc) = "equal"

\* the text of the github option on the command line, Undefined when there is none
GithubOption == OptionText(argv.options, "github")

\* C21: a command line with --github=r:b runs checkout() on remote r and branch b,
\* as the library call with github = "r:b" does.
C21_CliGithubSelectsTarget ==
  (/\ pc # "idle" /\ argv.method = "checkout"
   /\ GithubOption # Undefined /\ GithubMatch(GithubOption) # Undefined) =>
    /\ call.github = GithubOption
    /\ ResolvedRemote(call) = GithubMatch(GithubOption)[2]
    /\ ResolvedBranch(call) = GithubMatch(GithubOption)[3]

\* the commands of the clean-flag checkout() that discard uncommitted work
CleaningCommands == {"git reset", "git reset --hard", "git clean -f", "git clean -ffd", "git checkout ."}

\* the kinds of uncommitted work git reset --hard && git clean -f removes
Discarded == {"untrackedFile", "stagedAdd", "deleted", "stagedDelete"}

C22_WitnessClean ==
  /\ pc = "done" /\ call.clean = TRUE /\ pre.exists /\ pre.dirty = DirtyKinds
  /\ "git checkout" \in Range(log)

\* the commands of steps 5 to 9: they compare against the tracking state, discard
\* work, or switch
AfterFetchCommands ==
  {"git status --porcelain", "git submodule foreach clean", "git submodule update",
   "git reset", "git clean -ffd", "git checkout .", "git show-ref", "git branch --track",
   "git submodule deinit --all", "git checkout", "git rev-parse @", "git rev-parse @{u}",
   "git merge-base @ @{u}", "git reset --hard", "git clean -f", "git pull"}

\* where a call is once its fetch has exited 0
AfterFetch ==
  {"dirty", "promptDirty", "clean", "switch", "state", "promptAhead", "reset", "pull",
   "submodules", "done"}

\* C23: in every call the fetch of the target remote has completed before the dirty
\* check, the branch creation and switch, the relative state, the hard reset and the
\* pull, and the registration of the remote comes before the fetch: from the dirty
\* check on the remote-tracking refs of the target remote are the remote's tips.
C23_FetchComesFirst ==
  /\ \A k \in DOMAIN log :
       log[k] \in AfterFetchCommands =>
         \E i \in 1..(k - 1) : log[i] = "git fetch --recurse-submodules" /\ codes[i] = 0
  /\ \A i, j \in DOMAIN log :
       (log[i] = "git remote add" /\ log[j] = "git fetch --recurse-submodules") => i < j
  /\ pc \in AfterFetch =>
       /\ "git fetch --recurse-submodules" \in Range(log)
       /\ \A label \in DOMAIN server :
            RemoteOf(label) = ResolvedRemote(call) =>
              label \in DOMAIN wc.refs /\ wc.refs[label] = server[label]

\* a call that registered the remote, fetched, created the branch, switched and pulled
\* after somebody had pushed to the remote
C23_Witness ==
  /\ pc = "done"
  /\ {"git remote add", "git status --porcelain", "git branch --track", "git checkout",
      "git pull"} \subseteq Range(log)
  /\ \E label \in DOMAIN pre.refs : pre.refs[label] # server[label]

\* where a call is once step 3 is over
AfterRemote == {"fetch"} \cup AfterFetch

\* C24: a call registers the target remote exactly when the alias is not "origin" and
\* no remote with exactly that alias is registered in the working copy.
C24_RegistersExactlyWhenAbsent ==
  pc \in AfterRemote =>
    ("git remote add" \in Range(log)
       <=> (ResolvedRemote(call) # OriginRemote /\ ResolvedRemote(call) \notin pre.remotes))

\* what the probe does decide: the remote is registered exactly when the alias is
\* not "origin" and no registered alias ends with it
C24_RegistersWhenNoAliasEndsWithIt ==
  pc \in AfterRemote =>
    ("git remote add" \in Range(log)
       <=> (ResolvedRemote(call) # OriginRemote /\ ~RemoteFound(pre, ResolvedRemote(call))))

\* the text between the last "/" of an URL and its trailing ".git"
LastSegment(origin) ==
  LET slashes == {i \in 1..Len(origin) : origin[i] = "/"}
      last == CHOOSE i \in slashes : \A j \in slashes : j <= i IN
  SubSeq(origin, last + 1, Len(origin) - 1)

\* C25: the derived repository short name is the text between the last "/" of the
\* origin URL and its trailing ".git".
C25_NameIsLastSegment ==
  (pc \in AfterRemote \cup {"remote"}) => cur.name = LastSegment(call.origin)

\* what the match gives: the text between the first "/" and the last ".git"
C25_NameStartsAtFirstSlash ==
  (pc \in AfterRemote \cup {"remote"}) =>
    /\ call.origin[IndexOf(call.origin, "/", 1) + Len(cur.name) + 1] = ".git"
    /\ SubSeq(call.origin, IndexOf(call.origin, "/", 1) + 1,
               IndexOf(call.origin, "/", 1) + Len(cur.name)) = cur.name

\* C26: the short name matters only for the URL of a fork: a call with remote "origin"
\* does not fail because no short name can be derived from the origin URL.
C26_OriginNeedsNoName ==
  ResolvedRemote(call) = OriginRemote => err # NameTypeError

\* the position of a command in the log of the call, 0 when it was not issued
Position(command) == IndexOf(log, command, 1)

\* C27: a call that switches away from a branch with sub-repositories deinitialises
\* them and moves the module state into the cache under the name of the branch it
\* leaves, before it checks out the desired branch; after the call the cache holds an
\* entry of that name (the module state the branch had, when the name was free).
C27_ModulesCachedUnderLeftBranch ==
  (pc = "done" /\ hasSubmodules(pre) /\ wc.head # pre.head) =>
    /\ 0 < Position("git submodule deinit --all")
    /\ Position("git submodule deinit --all") < Position("mv .git/modules .git/git-tools/modules/$BRANCH")
    /\ Position("mv .git/modules .git/git-tools/modules/$BRANCH") < Position("git checkout")
    /\ pre.head \in DOMAIN wc.cache
    /\ (pre.modules # Undefined /\ pre.head \notin DOMAIN pre.cache) =>
         wc.cache[pre.head] = pre.modules

\* a call left develop, which has sub-repositories, for master
C27_Witness ==
  /\ pc = "done" /\ pre.head = DevelopBranch /\ hasSubmodules(pre) /\ wc.head = MasterBranch
  /\ DevelopBranch \in DOMAIN wc.cache

\* C28: as long as every call returned, after a call the cache holds no entry under
\* the name of the checked-out branch when that branch has sub-repositories, and
\* step 6b never moves the module state onto an entry that exists already.
C28_NoEntryForCheckedOutBranch ==
  /\ []((pc = "done" /\ ~aborted /\ hasSubmodules(wc)) => wc.head \notin DOMAIN wc.cache)
  /\ [][(/\ ~aborted /\ pc = "switch" /\ pc' = "state"
          /\ "git submodule deinit --all" \in Range(log') \ Range(log)) =>
          cur.branch \notin DOMAIN wc.cache]_vars

\* the same without the condition on the calls before. It holds for two calls and
\* fails with three: a call that is aborted between the checkout and step 9 leaves
\* the entry of the branch it reached, and the clean of a later call, which runs git
\* submodule update, brings the module directory back before step 6b moves it
C28_NeverOntoAnEntry ==
  [][(/\ pc = "switch" /\ pc' = "state"
      /\ "git submodule deinit --all" \in Range(log') \ Range(log)) =>
      cur.branch \notin DOMAIN wc.cache]_vars

\* a call came back to develop and took the entry stored for it
C28_Witness ==
  /\ pc = "done" /\ ~aborted /\ hasSubmodules(wc) /\ wc.head = DevelopBranch
  /\ DevelopBranch \in DOMAIN pre.cache
  /\ "mv .git/git-tools/modules/$BRANCH .git/modules" \in Range(log)

\* the commands of step 6, and those of them that change the working copy
SwitchCommands ==
  {"git show-ref", "git branch --track", "git submodule deinit --all",
   "mkdir -p .git/git-tools/modules", "mv .git/modules .git/git-tools/modules/$BRANCH",
   "git checkout"}

SwitchChanges == SwitchCommands \ {"git show-ref"}

\* the call was aborted by the failure of its last command
AbortedByCommand == pc = "failed" /\ err = CommandFailed /\ log # <<>>

\* C29: every step is one atomic call, so a call aborted by a command failure leaves
\* the working copy on a step boundary: no command of the step that failed has
\* taken effect.
C29_AbortsOnStepBoundary ==
  (AbortedByCommand /\ log[Len(log)] \in SwitchCommands) =>
    \A i \in 1..(Len(log) - 1) : ~(log[i] \in SwitchChanges /\ codes[i] = 0)

\* C29, amended: a step is several commands, each awaited before the next; a call
\* aborted inside step 6 keeps what the commands before the failing one did. The
\* working copy is still on the branch it was on, a branch made by 6a stays, and
\* when the move of the module state fails the sub-repositories are deinitialised
\* with nothing stored.
C29_AbortsInsideAStep ==
  (AbortedByCommand /\ log[Len(log)] \in SwitchCommands) =>
    /\ wc.head = cur.branch
    /\ \A i \in 1..(Len(log) - 1) :
         (log[i] = "git branch --track" /\ codes[i] = 0) =>
           /\ desiredLocalBranch \in DOMAIN wc.branches
           /\ desiredLocalBranch \notin DOMAIN pre.branches
    /\ log[Len(log)] = "mv .git/modules .git/git-tools/modules/$BRANCH" =>
         /\ "git submodule deinit --all" \in Range(log)
         /\ wc.modules = Undefined
         /\ wc.cache = pre.cache

\* the move of the module state failed in a call that had made the branch
C29_Witness ==
  /\ AbortedByCommand
  /\ log[Len(log)] = "mv .git/modules .git/git-tools/modules/$BRANCH"
  /\ "git branch --track" \in Range(log)
  /\ desiredLocalBranch \in DOMAIN wc.branches

\* C30: whenever a call issues the pull, the checked-out branch is not ahead of the
\* ref it pulls from: every change of the branch is in the tip of its upstream, so
\* the pull is a fast-forward and makes no merge commit.
C30_PullIsFastForward ==
  pc = "pull" => HeadCommit(wc) \subseteq server[HeadTracking(wc)]

\* the same for the calls whose checked-out branch tracks the label they asked for
C30_PullIsFastForwardOnTarget ==
  (pc = "pull" /\ HeadTracking(wc) = desiredTracking) =>
    HeadCommit(wc) \subseteq server[HeadTracking(wc)]

\* the (remote, branch) targets the calls of the model ask for
Targets ==
  {<<ResolvedRemote(a), ResolvedBranch(a)>> : a \in {i \in CheckoutInputs : ArgumentError(i) = ""}}

\* the derived local names of two distinct targets differ
C33_NamesDiffer ==
  \A s, t \in Targets :
    s # t => DesiredLocalBranch(s[1], s[2]) # DesiredLocalBranch(t[1], t[2])

\* the branch a call has switched to (found by name or created) tracks the
\* call's target
C33_BranchNotReused ==
  (pc = "state" /\ getBranch(wc) = desiredLocalBranch) =>
    getTrackingBranch(wc) = desiredTracking

\* C33: the local branch naming is collision-free: two distinct (remote, branch)
\* targets never derive the same local branch name, so a local branch created
\* for one target is never reused for a different target.
C33_NamingIsCollisionFree == C33_NamesDiffer /\ C33_BranchNotReused

\* C34: a checkout() never moves the tip of a local branch other than the one
\* that is checked out: every branch the working copy had when the call began,
\* the one checked out now apart, still has its commits and its upstream at every
\* step of the call and when it returns; the commits that exist only on the
\* branch being left stay on it.
C34_OtherTipsKept ==
  (pc # "idle" /\ pre.exists) =>
    \A b \in DOMAIN pre.branches \ {wc.head} :
      b \in DOMAIN wc.branches /\ wc.branches[b] = pre.branches[b]

\* a call returned on another branch than the one it left, which had commits of
\* its own and still has them
C34_Witness ==
  /\ pc = "done" /\ pre.exists /\ wc.head # pre.head
  /\ LocalOnly(pre, pre.head) # {}
  /\ LocalOnly(pre, pre.head) \subseteq wc.branches[pre.head].commit
  /\ "git pull" \in Range(log)

\* the commands of checkout() that change the working copy or its configuration
StateChangingCommands ==
  DestructiveCommands \cup {"git clone --recurse-submodules", "git remote add",
                            "git fetch --recurse-submodules", "git branch --track",
                            "git submodule update"}

\* C35: a checkout() on an existing working copy whose checked-out branch has no
\* upstream fails, whatever its target, before any state-changing command: the
\* call is rejected at the upstream query, no remote is registered, nothing is
\* fetched, cleaned, switched, reset or pulled, and the working copy is as it was.
C35_NoUpstreamFailsFirst ==
  (pc # "idle" /\ pre.exists /\ pre.branches[pre.head].tracking = Undefined) =>
    /\ pc \in {"clone", "inspect", "failed"}
    /\ wc = pre
    /\ Range(log) \cap StateChangingCommands = {}
    /\ Range(log) \subseteq {"git rev-parse --abbrev-ref --symbolic-full-name @{u}"}
    /\ (pc = "failed" => err # "")

\* a call for a branch of a remote that is not registered failed at the upstream
\* query on a topic branch with pending changes
C35_Witness ==
  /\ pc = "failed" /\ err = InspectorFailed
  /\ pre.exists /\ pre.branches[pre.head].tracking = Undefined
  /\ ResolvedRemote(call) = ForkRemote /\ ForkRemote \notin wc.remotes
  /\ wc.dirty # {}
  /\ log = <<"git rev-parse --abbrev-ref --symbolic-full-name @{u}">>

\* a call is under way
Running == ~Idle

\* the call waits for the operator
AtPrompt == pc \in {"promptDirty", "promptAhead"}

\* a call under way returns, throws or waits at a prompt of the gate
C36_SuspendsOnlyAtPrompts == Running ~> (Idle \/ AtPrompt)

\* C36: when every external command ends, a checkout() without the gate ends, with
\* success or an error; a checkout() with the gate waits nowhere but at its prompts
\* and ends when, in addition, the operator answers each prompt. No step is retried.
C36_Terminates ==
  /\ (Running /\ call.interactive = FALSE) ~> Idle
  /\ C36_SuspendsOnlyAtPrompts
  /\ WF_vars(Answers) => (Running ~> Idle)

\* a call with the gate returned after the operator answered a prompt
C36_Witness ==
  /\ pc = "done" /\ call.interactive = TRUE
  /\ prompts # <<>> /\ Len(answers) = Len(prompts)

\* the working copy is on the target of the running call
OnTarget ==
  getBranch(wc) = desiredLocalBranch /\ getTrackingBranch(wc) = desiredTracking

\* C31: checkout() has no mutual exclusion on the working copy.  A call that ran
\* from its start to its return with no other caller running in between returns on
\* its target; a call that waited at an await while a call for another target ran
\* can return with success on the other call's branch (C31_Witness).
C31_UninterruptedReturnsOnTarget ==
  (pc = "done" /\ ~other.resumed) => OnTarget

\* a call returned with success, every command of it having exited 0 but the
\* probes, while the working copy is on the branch of the other call
C31_Witness ==
  /\ pc = "done" /\ err = "" /\ ~OnTarget
  /\ other.pc = "done" /\ other.err = ""
  /\ <<ResolvedRemote(other.call), ResolvedBranch(other.call)>>
       # <<ResolvedRemote(call), ResolvedBranch(call)>>
  /\ getTrackingBranch(wc) = DesiredTracking(ResolvedRemote(other.call), ResolvedBranch(other.call))
  /\ \A i \in 1..Len(codes) : codes[i] # 0 => log[i] \in Probes

\* no state of the working copy is ahead of its upstream: nobody commits in it
C32_NeverAhead == wc.exists => getState(wc) # "ahead"

\* C32: getState reads the local tip, the upstream's tip and their merge base in
\* three separate queries.  When the working copy was the same at all three, the
\* result is the classification of that working copy; when a checkout() changed
\* it between them, the result can be one that fits no state the working copy was
\* ever in: here no state is ahead, and getState can still answer "ahead"
\* (C32_Witness).
C32_SteadyReadsClassify ==
  /\ C32_NeverAhead
  /\ (ins.outcome = "resolved" /\ ins.steady) =>
       /\ ins.value = StateOf(ins.start, ins.start.head)
       /\ ins.value = getState(ins.start)

\* getState answered "ahead" after a checkout() switched the branch between its
\* first and its second query
C32_Witness ==
  /\ ins.outcome = "resolved" /\ ins.value = "ahead" /\ ~ins.steady
  /\ ins.reads[1] = HeadCommit(ins.start)
  /\ ins.reads[2] # ins.start.refs[HeadTracking(ins.start)]
  /\ getState(ins.start) = "equal" /\ getState(wc) = "equal"

\* getState on an unchanging working copy that is behind its upstream
C32_SteadyWitness ==
  /\ ins.outcome = "resolved" /\ ins.steady /\ ins.value = "behind"
  /\ pc \notin {"idle", "done", "failed", "cancelled"}
====
